---- MODULE Spec2Model ----
(***************************************************************************)
(* Model of the checklist merge/render engine of                           *)
(* src/src/confluence-checklist-manager.ts (ConfluenceChecklistManager).   *)
(*                                                                         *)
(* Text is a sequence of one-character strings (Str), so that escapeXml     *)
(* and trim are computed as the code computes them.  A page body is a tree: *)
(* a sequence of top-level nodes (panels, task lists, whitespace); a panel  *)
(* holds a heading and sections of tasks; a task holds an id, a status and  *)
(* a body; a body is a sequence of tokens (anchor macro, text, or a nested  *)
(* task, which is how the editor stores an indented sub-task).             *)
(* Task ids are naturals, 0 standing for "no <ac:task-id> element"; the    *)
(* status "" stands for "no <ac:task-status> element".                     *)
(*                                                                         *)
(* The page store hands back the body as it was last written and accepts   *)
(* every write; the XML library's re-serialisation of a parsed document is *)
(* taken to give the document back.  Sub-tasks nest one level deep and     *)
(* panels do not nest.                                                     *)
(*                                                                         *)
(* Spec is the engine on one page whose store never fails.  SpecHttp is    *)
(* the REST layer: page lookup and creation, labels, the write with its    *)
(* retry on a version conflict, the page property, and the batch entry     *)
(* point, against a store of pages and a server that answers a request     *)
(* with success, with a version conflict or with a failure.  The server    *)
(* injects faults into one run of a behaviour.  SpecPanels is the engine   *)
(* of Spec on pages with several panels.                                   *)
(***************************************************************************)
EXTENDS Integers, Sequences, FiniteSets, TLC

(***************************************************************************)
(* Bounds of the model.                                                    *)
(***************************************************************************)
\* longest item list of a specification
MaxItems == 2
\* number of steps (syncs, revisions, out-of-band edits) of one behaviour
MaxSteps == 3
\* wall-clock readings Date.now() may return: 1..MaxClock
MaxClock == 2

(***************************************************************************)
(* Strings.                                                                *)
(***************************************************************************)
NL == "\n"
SP == " "

IsWs(c) == c \in {SP, NL, "\t"}

RECURSIVE Concat(_)
Concat(ss) == IF ss = <<>> THEN <<>> ELSE Head(ss) \o Concat(Tail(ss))

RECURSIVE LTrim(_)
LTrim(s) == IF s # <<>> /\ IsWs(Head(s)) THEN LTrim(Tail(s)) ELSE s

RECURSIVE RTrim(_)
RTrim(s) ==
    IF s # <<>> /\ IsWs(s[Len(s)]) THEN RTrim(SubSeq(s, 1, Len(s) - 1)) ELSE s

\* String.prototype.trim
Trim(s) == RTrim(LTrim(s))

EscapeChar(c) ==
    CASE c = "&"  -> <<"&", "a", "m", "p", ";">>
      [] c = "<"  -> <<"&", "l", "t", ";">>
      [] c = ">"  -> <<"&", "g", "t", ";">>
      [] c = "\"" -> <<"&", "q", "u", "o", "t", ";">>
      [] c = "'"  -> <<"&", "#", "3", "9", ";">>
      [] OTHER    -> <<c>>

\* escapeXml: every special character replaced by its entity
escapeXml(s) == Concat([i \in 1..Len(s) |-> EscapeChar(s[i])])

DEFAULT_PANEL_TITLE == <<"Checklist", SP, "(managed)">>

REMOVED_HEADING == <<"Removed", SP, "items", SP, "(kept", SP, "for", SP, "reference)">>

(***************************************************************************)
(* Body tokens and tasks.                                                  *)
(***************************************************************************)
\* <ac:structured-macro ac:name="anchor"> holding an <ac:parameter ac:name="">
\* with raw text v; direct says that the parameter is a child of the macro
\* element (FALSE: a deeper descendant)
Anchor(v, d) ==
    [k |-> "anchor", val |-> v, direct |-> d, taskId |-> 0, status |-> "", body |-> <<>>]

\* a run of markup or text that holds no anchor and no task
Text(v) ==
    [k |-> "text", val |-> v, direct |-> FALSE, taskId |-> 0, status |-> "", body |-> <<>>]

\* an <ac:task> nested in a body (inside its own <ac:task-list>)
SubTask(id, st, b) ==
    [k |-> "task", val |-> <<>>, direct |-> FALSE, taskId |-> id, status |-> st, body |-> b]

Task(id, st, b) == [taskId |-> id, status |-> st, body |-> b]

\* anchorXml
anchorXml(stableId) == Anchor(escapeXml(stableId), TRUE)

\* buildNewTaskBodyXml: <ac:task-body><p>ANCHOR TEXT</p></ac:task-body>
\* variant that renders the display text alone, without the marker
buildNewTaskBodyTextOnly(anchorId, text) ==
    << Text(<<"<p>">> \o escapeXml(text) \o <<"</p>">>) >>

buildNewTaskBodyXml(anchorId, text) ==
    << Text(<<"<p>">>), anchorXml(anchorId),
       Text(<<SP>> \o escapeXml(text) \o <<"</p>">>) >>

\* the anchor macros of a body in document order, those of nested tasks included
BodyAnchors(body) ==
    Concat([i \in 1..Len(body) |->
        CASE body[i].k = "anchor" -> <<body[i]>>
          [] body[i].k = "task" ->
                SelectSeq(body[i].body, LAMBDA t : t.k = "anchor")
          [] OTHER -> <<>>])

\* the tasks nested in a body, as tasks
NestedTasks(body) ==
    Concat([i \in 1..Len(body) |->
        IF body[i].k = "task"
        THEN <<Task(body[i].taskId, body[i].status, body[i].body)>>
        ELSE <<>>])

\* a task followed by the tasks nested in it: the order of $(...).find('ac:task')
WithNested(t) == <<t>> \o NestedTasks(t.body)

\* variant that never inserts: the body goes through as it is
ensureAnchorNever(bodyXml, anchorId) == bodyXml

\* ensureAnchorInBodyXml
ensureAnchorInBodyXml(bodyXml, anchorId) ==
    LET as == BodyAnchors(bodyXml)
        found == \E i \in 1..Len(as) : as[i].direct /\ Trim(as[i].val) = anchorId
    IN  IF found THEN bodyXml
        ELSE <<anchorXml(anchorId), Text(<<SP>>)>> \o bodyXml

(***************************************************************************)
(* Documents.                                                              *)
(***************************************************************************)
\* the content of a panel's <ac:rich-text-body>: an optional <h2> and a list of
\* sections, each an optional <h3> followed by one <ac:task-list>
Inner(title, sections) == [title |-> title, sections |-> sections]

Section(heading, tasks) == [heading |-> heading, tasks |-> tasks]

EmptyInner == Inner(<<>>, <<>>)

\* <ac:structured-macro ac:name="panel"> with the raw text of its title
\* parameter; pad says that the rich-text-body holds its content between the
\* line breaks of the template (TRUE) or directly (FALSE)
Panel(title, pad, inner) ==
    [k |-> "panel", title |-> title, pad |-> pad, inner |-> inner, tasks |-> <<>>]

\* an <ac:task-list> outside every panel
TaskList(ts) ==
    [k |-> "tasks", title |-> <<>>, pad |-> FALSE, inner |-> EmptyInner, tasks |-> ts]

\* a line break between top-level nodes
WsNode == [k |-> "ws", title |-> <<>>, pad |-> FALSE, inner |-> EmptyInner, tasks |-> <<>>]

\* the top-level tasks of a panel's content, in document order
InnerTasks(inner) ==
    Concat([i \in 1..Len(inner.sections) |-> inner.sections[i].tasks])

\* every <ac:task> of a panel's content in document order, nested ones included
RegionTasks(inner) ==
    LET ts == InnerTasks(inner)
    IN  Concat([i \in 1..Len(ts) |-> WithNested(ts[i])])

\* every <ac:task> of the document in document order
DocTasks(doc) ==
    Concat([i \in 1..Len(doc) |->
        CASE doc[i].k = "panel" -> RegionTasks(doc[i].inner)
          [] doc[i].k = "tasks" ->
                Concat([j \in 1..Len(doc[i].tasks) |-> WithNested(doc[i].tasks[j])])
          [] OTHER -> <<>>])

\* variant that selects the last panel of that title
FindPanelLast(storageXml, panelTitle) ==
    LET hits == {i \in 1..Len(storageXml) :
                    /\ storageXml[i].k = "panel"
                    /\ Trim(storageXml[i].title) = panelTitle}
    IN  IF hits = {} THEN 0 ELSE CHOOSE i \in hits : \A j \in hits : j <= i

\* the panel selection shared by setManagedPanel and readExistingTasks: the
\* position of the first panel whose trimmed title text equals panelTitle, or 0
FindPanel(storageXml, panelTitle) ==
    LET hits == {i \in 1..Len(storageXml) :
                    /\ storageXml[i].k = "panel"
                    /\ Trim(storageXml[i].title) = panelTitle}
    IN  IF hits = {} THEN 0 ELSE CHOOSE i \in hits : \A j \in hits : i <= j

(***************************************************************************)
(* Document Parser: readExistingTasks.                                     *)
(***************************************************************************)
\* $task.find('ac:task-status').first().text(): the task's own status element,
\* else the first one of a nested task
FirstStatus(t) ==
    LET ns == SelectSeq(NestedTasks(t.body), LAMBDA n : n.status # "")
    IN  IF t.status # "" THEN t.status
        ELSE IF ns # <<>> THEN ns[1].status ELSE ""

\* $task.find('ac:task-id').first().text() || null
FirstTaskId(t) ==
    LET ns == SelectSeq(NestedTasks(t.body), LAMBDA n : n.taskId # 0)
    IN  IF t.taskId # 0 THEN t.taskId
        ELSE IF ns # <<>> THEN ns[1].taskId ELSE 0

\* the value of the last anchor of the body whose trimmed text is not empty;
\* <<>> stands for null
AnchorIdOf(body) ==
    LET vs == SelectSeq(BodyAnchors(body), LAMBDA a : Trim(a.val) # <<>>)
    IN  IF vs = <<>> THEN <<>> ELSE Trim(vs[Len(vs)].val)

ExistingTask(key, status, taskId, bodyXml) ==
    [key |-> key, status |-> status, taskId |-> taskId, bodyXml |-> bodyXml]

\* Map.prototype.set on a map kept as the sequence of its entries in insertion
\* order: a key already present keeps its place and takes the new value
MapSet(m, e) ==
    IF \E i \in 1..Len(m) : m[i].key = e.key
    THEN [i \in 1..Len(m) |-> IF m[i].key = e.key THEN e ELSE m[i]]
    ELSE Append(m, e)

MapHas(m, key) == \E i \in 1..Len(m) : m[i].key = key

\* variant that answers with the oldest entry, whatever the key
MapGetOldest(m, key) == m[1]

MapGet(m, key) == m[CHOOSE i \in 1..Len(m) : m[i].key = key]

\* variant that indexes a task without marker too, under the empty key
RECURSIVE IndexTasksKeepOrphans(_, _)
IndexTasksKeepOrphans(ts, map) ==
    IF ts = <<>> THEN map
    ELSE LET t == Head(ts)
             status == IF FirstStatus(t) = "" THEN "incomplete" ELSE FirstStatus(t)
         IN  IndexTasksKeepOrphans(Tail(ts),
                 MapSet(map, ExistingTask(AnchorIdOf(t.body), status, FirstTaskId(t),
                                          t.body)))

RECURSIVE IndexTasks(_, _)
IndexTasks(ts, map) ==
    IF ts = <<>> THEN map
    ELSE LET t == Head(ts)
             status == IF FirstStatus(t) = "" THEN "incomplete" ELSE FirstStatus(t)
             anchorId == AnchorIdOf(t.body)
         IN  IndexTasks(Tail(ts),
                 IF anchorId # <<>>
                 THEN MapSet(map, ExistingTask(anchorId, status, FirstTaskId(t), t.body))
                 ELSE map)

\* a call of the logger: the method that calls it, and what it reports
LogEvent(by, msg) == [by |-> by, msg |-> msg]

\* the logger calls of readExistingTasks: it has none, neither for a task it
\* indexes nor for one it leaves out
readExistingTasksLog(storageXml, panelTitle) == <<>>

readExistingTasks(storageXml, panelTitle) ==
    LET target == FindPanel(storageXml, panelTitle)
    IN  IF target = 0 THEN <<>>
        ELSE IndexTasks(RegionTasks(storageXml[target].inner), <<>>)

(***************************************************************************)
(* Global Identifier Collector and allocation.                             *)
(***************************************************************************)
collectAllTaskIdsOnPage(storageXml) ==
    LET ts == DocTasks(storageXml)
    IN  {ts[i].taskId : i \in 1..Len(ts)} \ {0}

RECURSIVE FirstFree(_, _)
FirstFree(ids, next) == IF next \in ids THEN FirstFree(ids, next + 1) ELSE next

\* variant that returns the first free value without reserving it
allocateNoReserve(allTaskIdsOnPage, now) ==
    [id |-> FirstFree(allTaskIdsOnPage, now), ids |-> allTaskIdsOnPage]

\* allocateTaskId with Date.now() = now: the first value from now on that is
\* not in the set, and the set with that value added
allocateTaskId(allTaskIdsOnPage, now) ==
    LET id == FirstFree(allTaskIdsOnPage, now)
    IN  [id |-> id, ids |-> allTaskIdsOnPage \cup {id}]

(***************************************************************************)
(* Merge & Render Engine: buildPanelInnerXml.                              *)
(***************************************************************************)
Item(id, text) == [id |-> id, text |-> text]

SpecSection(heading, items) == [heading |-> heading, items |-> items]

\* Date.now() of the next allocateTaskId call
Now(clock) == IF clock = <<>> THEN 1 ELSE Head(clock)

\* one <ac:task> of the render loops: acc carries the tasks rendered so far, the
\* reserved id set, the clock readings not yet consumed and the ids allocated
RenderTask(acc, hasPrev, prev, bodyXml) ==
    LET status == IF hasPrev /\ prev.status = "complete" THEN "complete" ELSE "incomplete"
        reuse == hasPrev /\ prev.taskId # 0
        a == allocateTaskId(acc.ids, Now(acc.clock))
        taskId == IF reuse THEN prev.taskId ELSE a.id
    IN  [tasks  |-> Append(acc.tasks, Task(taskId, status, bodyXml)),
         ids    |-> IF reuse THEN acc.ids ELSE a.ids,
         clock  |-> IF reuse \/ acc.clock = <<>> THEN acc.clock ELSE Tail(acc.clock),
         allocs |-> IF reuse THEN acc.allocs ELSE Append(acc.allocs, a.id)]

\* variant that renders the display text of the specification for every item
ItemBodyFromText(hasPrev, prev, item) == buildNewTaskBodyXml(item.id, item.text)

\* the body of the task of an item: the prior body with the marker ensured,
\* or a freshly built one
ItemBodyXml(hasPrev, prev, item) ==
    IF hasPrev /\ prev.bodyXml # <<>> THEN ensureAnchorInBodyXml(prev.bodyXml, item.id)
    ELSE buildNewTaskBodyXml(item.id, item.text)

\* variant of the loop that takes the items of a section last to first
RECURSIVE RenderItemsBackwards(_, _, _)
RenderItemsBackwards(items, existingMap, acc) ==
    IF items = <<>> THEN acc
    ELSE LET item == items[Len(items)]
             hasPrev == MapHas(existingMap, item.id)
             prev == IF hasPrev THEN MapGet(existingMap, item.id)
                     ELSE ExistingTask(<<>>, "", 0, <<>>)
         IN  RenderItemsBackwards(SubSeq(items, 1, Len(items) - 1), existingMap,
                 RenderTask(acc, hasPrev, prev, ItemBodyXml(hasPrev, prev, item)))

\* the loop over section.items
RECURSIVE RenderItems(_, _, _)
RenderItems(items, existingMap, acc) ==
    IF items = <<>> THEN acc
    ELSE LET item == Head(items)
             anchorId == item.id
             hasPrev == MapHas(existingMap, anchorId)
             prev == IF hasPrev THEN MapGet(existingMap, anchorId)
                     ELSE ExistingTask(<<>>, "", 0, <<>>)
             bodyXml == ItemBodyXml(hasPrev, prev, item)
         IN  RenderItems(Tail(items), existingMap,
                         RenderTask(acc, hasPrev, prev, bodyXml))

\* the loop over spec.sections; out collects the rendered sections
RECURSIVE RenderSections(_, _, _, _)
RenderSections(sections, existingMap, acc, out) ==
    IF sections = <<>> THEN [sections |-> out, acc |-> acc]
    ELSE LET section == Head(sections)
             r == RenderItems(section.items, existingMap, [acc EXCEPT !.tasks = <<>>])
         IN  RenderSections(Tail(sections), existingMap, r,
                 Append(out, Section(escapeXml(section.heading), r.tasks)))

\* the ids of all items of the specification
NowIds(spec) ==
    UNION {{spec.sections[i].items[j].id : j \in 1..Len(spec.sections[i].items)}
            : i \in 1..Len(spec.sections)}

\* variant that lists the entries not in the specification newest first
RemovedNewestFirst(spec, existingMap) ==
    LET r == SelectSeq(existingMap, LAMBDA e : e.key \notin NowIds(spec))
    IN  [i \in 1..Len(r) |-> r[Len(r) + 1 - i]]

\* the index entries whose key is not in the specification, in index order
Removed(spec, existingMap) ==
    SelectSeq(existingMap, LAMBDA e : e.key \notin NowIds(spec))

\* variant that renders the appendix whatever the option says
WithRemovedAlways(includeRemovedSection, removed) == removed # <<>>

\* whether the appendix is rendered
WithRemoved(includeRemovedSection, removed) ==
    includeRemovedSection /\ removed # <<>>

\* the loop over removed
RECURSIVE RenderRemoved(_, _)
RenderRemoved(removed, acc) ==
    IF removed = <<>> THEN acc
    ELSE LET prev == Head(removed)
         IN  RenderRemoved(Tail(removed),
                 RenderTask(acc, TRUE, prev, ensureAnchorInBodyXml(prev.bodyXml, prev.key)))

\* buildPanelInnerXml; clock holds the readings of Date.now() in call order.
\* The result holds the rendered content and the ids allocated, in order.
buildPanelInnerXml(spec, existingMap, allTaskIdsOnPage, includeRemovedSection, clock) ==
    LET acc0 == [tasks |-> <<>>, ids |-> allTaskIdsOnPage, clock |-> clock, allocs |-> <<>>]
        main == RenderSections(spec.sections, existingMap, acc0, <<>>)
        removed == Removed(spec, existingMap)
        withRemoved == WithRemoved(includeRemovedSection, removed)
        app == RenderRemoved(removed, [main.acc EXCEPT !.tasks = <<>>])
    IN  [inner  |-> Inner(escapeXml(spec.title),
                          IF withRemoved
                          THEN Append(main.sections, Section(REMOVED_HEADING, app.tasks))
                          ELSE main.sections),
         allocs |-> IF withRemoved THEN app.allocs ELSE main.acc.allocs]

(***************************************************************************)
(* Region Replacer: setManagedPanel.                                       *)
(***************************************************************************)
\* variant that replaces the content of every panel of that title
setManagedPanelAll(storageXml, panelTitle, innerXml) ==
    IF FindPanel(storageXml, panelTitle) # 0
    THEN [i \in 1..Len(storageXml) |->
            IF storageXml[i].k = "panel" /\ Trim(storageXml[i].title) = panelTitle
            THEN Panel(storageXml[i].title, FALSE, innerXml)
            ELSE storageXml[i]]
    ELSE (IF storageXml # <<>> THEN Append(storageXml, WsNode) ELSE <<>>)
            \o <<Panel(escapeXml(panelTitle), TRUE, innerXml), WsNode>>

setManagedPanel(storageXml, panelTitle, innerXml) ==
    LET target == FindPanel(storageXml, panelTitle)
    IN  IF target # 0
        THEN [storageXml EXCEPT ![target] = Panel(storageXml[target].title, FALSE, innerXml)]
        ELSE (IF storageXml # <<>> THEN Append(storageXml, WsNode) ELSE <<>>)
                \o <<Panel(escapeXml(panelTitle), TRUE, innerXml), WsNode>>

(***************************************************************************)
(* Idempotency Comparator: the markup as a sequence of characters and tags, *)
(* and normalizeXml on it.                                                  *)
(***************************************************************************)
RECURSIVE Join(_, _)
Join(chunks, sep) ==
    IF chunks = <<>> THEN <<>>
    ELSE IF Len(chunks) = 1 THEN chunks[1]
    ELSE chunks[1] \o sep \o Join(Tail(chunks), sep)

XmlTaskHead(t) ==
    <<"<ac:task>", NL, SP, SP>>
    \o (IF t.taskId # 0 THEN <<"<ac:task-id>", ToString(t.taskId), "</ac:task-id>">> ELSE <<>>)
    \o <<NL, SP, SP>>
    \o (IF t.status # "" THEN <<"<ac:task-status>", t.status, "</ac:task-status>">> ELSE <<>>)
    \o <<NL, SP, SP>>

XmlAnchor(a) ==
    IF a.direct
    THEN <<"<anchor>", "<ac:parameter>">> \o a.val \o <<"</ac:parameter>", "</anchor>">>
    ELSE <<"<anchor>", "<div>", "<ac:parameter>">> \o a.val
            \o <<"</ac:parameter>", "</div>", "</anchor>">>

\* a body without nested tasks
XmlFlatBody(body) ==
    <<"<ac:task-body>">>
    \o Concat([i \in 1..Len(body) |->
            IF body[i].k = "anchor" THEN XmlAnchor(body[i]) ELSE body[i].val])
    \o <<"</ac:task-body>">>

XmlBody(body) ==
    <<"<ac:task-body>">>
    \o Concat([i \in 1..Len(body) |->
            CASE body[i].k = "anchor" -> XmlAnchor(body[i])
              [] body[i].k = "task" ->
                    <<"<ac:task-list>">> \o XmlTaskHead(body[i]) \o XmlFlatBody(body[i].body)
                    \o <<NL, "</ac:task>", "</ac:task-list>">>
              [] OTHER -> body[i].val])
    \o <<"</ac:task-body>">>

XmlTask(t) == XmlTaskHead(t) \o XmlBody(t.body) \o <<NL, "</ac:task>">>

\* chunks.join("\n") of buildPanelInnerXml
XmlInner(inner) ==
    Join((IF inner.title # <<>> THEN << <<"<h2>">> \o inner.title \o <<"</h2>">> >> ELSE <<>>)
         \o Concat([i \in 1..Len(inner.sections) |->
              (IF inner.sections[i].heading # <<>>
               THEN << <<"<h3>">> \o inner.sections[i].heading \o <<"</h3>">> >> ELSE <<>>)
              \o << <<"<ac:task-list>">> >>
              \o [j \in 1..Len(inner.sections[i].tasks) |-> XmlTask(inner.sections[i].tasks[j])]
              \o << <<"</ac:task-list>">> >>]),
         <<NL>>)

XmlNode(n) ==
    CASE n.k = "panel" ->
            <<"<panel>", NL, SP, SP, "<title>">> \o n.title
            \o <<"</title>", NL, SP, SP, "<ac:rich-text-body>">>
            \o (IF n.pad THEN <<NL>> \o XmlInner(n.inner) \o <<NL, SP, SP>>
                ELSE XmlInner(n.inner))
            \o <<"</ac:rich-text-body>", NL, "</panel>">>
      [] n.k = "tasks" ->
            <<"<ac:task-list>">>
            \o Concat([j \in 1..Len(n.tasks) |-> XmlTask(n.tasks[j])])
            \o <<"</ac:task-list>">>
      [] OTHER -> <<NL>>

\* the storage string of a document
Xml(doc) == Concat([i \in 1..Len(doc) |-> XmlNode(doc[i])])

\* every run of white space replaced by one space
Collapse(x) ==
    LET marked == [i \in 1..Len(x) |-> <<x[i], i > 1 /\ IsWs(x[i - 1])>>]
        kept == SelectSeq(marked, LAMBDA m : ~(IsWs(m[1]) /\ m[2]))
    IN  [i \in 1..Len(kept) |-> IF IsWs(kept[i][1]) THEN SP ELSE kept[i][1]]

\* normalizeXml: x.replace(/\s+/g, " ").trim()
normalizeXml(x) == Trim(Collapse(x))

(***************************************************************************)
(* Inputs: the specifications a caller may pass and the documents a page   *)
(* may hold before the first sync.                                         *)
(***************************************************************************)
X == <<"x">>
Y == <<"y">>
AMP == <<"a", "&", "b">>

IdPool == {X, Y, AMP}

\* the display text of every item in revision rev of the specification
TextOf(rev) == IF rev = 1 THEN <<"f", "o", "o">> ELSE <<"<", "b", ">">>

\* the lists of at most MaxItems distinct external ids
IdLists ==
    UNION {{ids \in [1..n -> IdPool] : \A i, j \in 1..n : ids[i] = ids[j] => i = j}
            : n \in 0..MaxItems}

\* a specification of two sections: the first k ids under a heading, the rest
\* without one; revision 2 changes every display text and adds a title
MkSpec(ids, k, rev) ==
    [title |-> IF rev = 1 THEN <<>> ELSE <<"T">>,
     panelTitle |-> <<>>,
     sections |-> << SpecSection(<<"H">>, [i \in 1..k |-> Item(ids[i], TextOf(rev))]),
                     SpecSection(<<>>, [i \in 1..(Len(ids) - k) |->
                                            Item(ids[k + i], TextOf(rev))]) >>]

\* the ids of a specification in specification order
IdsOf(s) ==
    Concat([i \in 1..Len(s.sections) |->
        [j \in 1..Len(s.sections[i].items) |-> s.sections[i].items[j].id]])

SplitOf(s) == Len(s.sections[1].items)

RevOf(s) == IF s.title = <<>> THEN 1 ELSE 2

Reverse(q) == [i \in 1..Len(q) |-> q[Len(q) + 1 - i]]

\* the specifications one revision away: items reordered, an item moved to the
\* other section, an item dropped, an item added, or every text changed
Revisions(s) ==
    LET ids == IdsOf(s)
        k == SplitOf(s)
        rev == RevOf(s)
    IN  { [r EXCEPT !.panelTitle = s.panelTitle] : r \in
          {MkSpec(Reverse(ids), k, rev)}
          \cup {MkSpec(ids, k2, rev) : k2 \in {k - 1, k + 1} \cap (0..Len(ids))}
          \cup {MkSpec(Tail(ids), IF k > 0 THEN k - 1 ELSE 0, rev) : z \in {1} \cap (1..Len(ids))}
          \cup {MkSpec(Append(ids, id), k, rev) :
                    id \in {i \in IdPool : Len(ids) < MaxItems /\ i \notin NowIds(s)}}
          \cup {MkSpec(ids, k, 3 - rev)} } \ {s}

\* the first revisions of a specification: one section without heading
InitSpecs == {MkSpec(ids, 0, 1) : ids \in IdLists}

\* a page with no content
DocEmpty == <<>>

\* a page that holds a task list of its own and no managed panel
DocOutside == << TaskList(<<Task(2, "complete", <<Text(<<"o">>)>>)>>) >>

\* a page whose managed panel was written by hand: a task with neither id nor
\* known status whose anchor parameter is not a child of the macro, and a task
\* whose anchor text carries white space
DocLegacy ==
    << Panel(DEFAULT_PANEL_TITLE, FALSE,
             Inner(<<>>, << Section(<<>>,
                 << Task(0, "done", <<Anchor(X, FALSE), Text(<<"l">>)>>),
                    Task(1, "complete", <<Anchor(<<"y", SP>>, TRUE)>>) >>) >>)) >>

InitDocs == {DocEmpty, DocOutside, DocLegacy}

(***************************************************************************)
(* State.                                                                  *)
(***************************************************************************)
\* JavaScript values of an outcome's updated field: a boolean, or the object
\* { updated: b } that syncById returns
JsBoolean(b) == [type |-> "boolean", val |-> b]

UpdatedResult(b) == [type |-> "object", val |-> b]

\* EnsureResult
EnsureResult(pageId, created, updated) ==
    [pageId |-> pageId, created |-> created, updated |-> updated]

\* no handler has run on the store of pages yet
NoCall ==
    [op |-> "none", pageTitle |-> "", labels |-> {}, pagesBefore |-> <<>>,
     reqs |-> <<>>, logs |-> <<>>, err |-> FALSE, compared |-> FALSE,
     differs |-> FALSE, result |-> EnsureResult(0, FALSE, JsBoolean(FALSE)),
     faulty |-> FALSE, pageId |-> 0]

\* no syncWorkgroups call is under way
NoBatch ==
    [active |-> FALSE, plans |-> <<>>, i |-> 1, out |-> <<>>, done |-> <<>>,
     returned |-> FALSE]

VARIABLES
    pages,      \* the store of pages of one space, a page's id being its position
    call,       \* the requests and the result of the last handler run on pages
    batch,      \* the syncWorkgroups call under way: plans, position, outcome map
    storage,    \* the stored page body (body.storage.value)
    version,    \* the stored page version (version.number)
    spec,       \* the ChecklistSpec the caller holds
    opts,       \* the options the caller passes: includeRemovedSection, dryRun
    steps,      \* steps taken so far
    lastOp,     \* the kind of the last step: "none", "sync", "edit", "revise"
    last        \* the locals and the result of the last syncById call

vars == <<storage, version, spec, opts, steps, lastOp, last, pages, call, batch>>

NoSync ==
    [n |-> 0, storage |-> <<>>, spec |-> MkSpec(<<>>, 0, 1),
     existingMap |-> <<>>, prevAllTaskIds |-> {}, inner |-> EmptyInner,
     allocs |-> <<>>, newStorage |-> <<>>, updated |-> FALSE, wrote |-> FALSE,
     rep |-> FALSE, logs |-> <<>>]

Init ==
    /\ storage \in InitDocs
    /\ version = 1
    /\ spec \in InitSpecs
    /\ opts \in [includeRemovedSection : BOOLEAN, dryRun : BOOLEAN]
    /\ steps = 0
    /\ lastOp = "none"
    /\ last = NoSync
    /\ pages = <<>>
    /\ call = NoCall
    /\ batch = NoBatch

Step(op) ==
    /\ steps < MaxSteps
    /\ steps' = steps + 1
    /\ lastOp' = op
    /\ UNCHANGED <<opts, pages, call, batch>>

(***************************************************************************)
(* syncById, on a store that answers every request with success.           *)
(***************************************************************************)
PanelTitleOf(s) == IF s.panelTitle = <<>> THEN DEFAULT_PANEL_TITLE ELSE s.panelTitle

\* the number of allocateTaskId calls of one render pass
Allocations(s, existingMap, includeRemovedSection) ==
    LET removed == Removed(s, existingMap)
    IN  Cardinality({id \in NowIds(s) :
            ~MapHas(existingMap, id) \/ MapGet(existingMap, id).taskId = 0})
        + (IF includeRemovedSection
           THEN Cardinality({i \in 1..Len(removed) : removed[i].taskId = 0}) ELSE 0)

\* the logger calls of one syncById in call order: the request dump of api
\* for every request, those of the parser, and the report of the outcome
syncByIdLog(storageXml, panelTitle, same, dryRun) ==
    <<LogEvent("api", "GET page")>>
        \o readExistingTasksLog(storageXml, panelTitle)
        \o (IF same THEN <<LogEvent("syncById", "no changes; skip update")>>
            ELSE IF dryRun
            THEN <<LogEvent("putPageWithRetry", "UPDATE PAGE"),
                   LogEvent("syncById", "updated")>>
            ELSE <<LogEvent("api", "PUT page"), LogEvent("api", "GET property"),
                   LogEvent("api", "POST or PUT property"),
                   LogEvent("syncById", "updated")>>)

\* syncById; the readings of Date.now() of its allocateTaskId calls are any
\* values of 1..MaxClock
syncById(includeRemovedSection, dryRun) ==
    LET panelTitle == PanelTitleOf(spec)
        existingMap == readExistingTasks(storage, panelTitle)
        prevAllTaskIds == collectAllTaskIdsOnPage(storage)
        calls == Allocations(spec, existingMap, includeRemovedSection)
        before == normalizeXml(Xml(storage))
        renders == {buildPanelInnerXml(spec, existingMap, prevAllTaskIds,
                                       includeRemovedSection, clock)
                        : clock \in [1..calls -> 1..MaxClock]}
    IN  \E built \in renders :
          LET newStorage == setManagedPanel(storage, panelTitle, built.inner)
              same == before = normalizeXml(Xml(newStorage))
              put == ~same /\ ~dryRun
          IN  /\ storage' = IF put THEN newStorage ELSE storage
              /\ version' = IF put THEN version + 1 ELSE version
              /\ last' = [n |-> last.n + 1, storage |-> storage, spec |-> spec,
                          existingMap |-> existingMap, prevAllTaskIds |-> prevAllTaskIds,
                          inner |-> built.inner, allocs |-> built.allocs,
                          newStorage |-> newStorage, updated |-> ~same, wrote |-> put,
                          rep |-> lastOp = "sync",
                          logs |-> syncByIdLog(storage, panelTitle, same, dryRun)]

Sync ==
    /\ Step("sync")
    /\ syncById(opts.includeRemovedSection, opts.dryRun)
    /\ UNCHANGED spec

(***************************************************************************)
(* The caller revises the specification between two syncs.                 *)
(***************************************************************************)
Revise ==
    /\ Step("revise")
    /\ lastOp = "sync"
    /\ steps + 1 < MaxSteps
    /\ spec' \in Revisions(spec)
    /\ UNCHANGED <<storage, version, last>>

(***************************************************************************)
(* Out-of-band edits: a user changes the page in the editor.               *)
(***************************************************************************)
\* the positions (panel p, section s, task i) of the top-level tasks of panels
TaskPositions ==
    UNION {UNION {{<<p, s, i>> : i \in 1..Len(storage[p].inner.sections[s].tasks)}
                    : s \in 1..Len(storage[p].inner.sections)}
            : p \in {q \in 1..Len(storage) : storage[q].k = "panel"}}

TaskAt(pos) == storage[pos[1]].inner.sections[pos[2]].tasks[pos[3]]

\* the stored document with the task list of section pos[2] of panel pos[1] replaced
WithTasks(pos, ts) ==
    [storage EXCEPT ![pos[1]].inner.sections[pos[2]].tasks = ts]

Edited(doc) ==
    /\ Step("edit")
    /\ lastOp \in {"none", "sync"}
    /\ steps + 1 < MaxSteps
    /\ storage' = doc
    /\ version' = version + 1
    /\ UNCHANGED <<spec, last>>

\* the user ticks or unticks a checkbox
SetStatus ==
    \E pos \in TaskPositions :
        LET ts == storage[pos[1]].inner.sections[pos[2]].tasks
            st == IF TaskAt(pos).status = "complete" THEN "incomplete" ELSE "complete"
        IN  Edited(WithTasks(pos, [ts EXCEPT ![pos[3]].status = st]))

\* the user appends a mention to a task's text
AppendText ==
    \E pos \in TaskPositions :
        LET ts == storage[pos[1]].inner.sections[pos[2]].tasks
            mention == Text(<<"@", "u">>)
        IN  /\ \A i \in 1..Len(TaskAt(pos).body) : TaskAt(pos).body[i] # mention
            /\ Edited(WithTasks(pos, [ts EXCEPT ![pos[3]].body = Append(@, mention)]))

\* the user indents a task: it becomes a sub-task at the end of the body of
\* the task before it
IndentTask ==
    \E pos \in TaskPositions :
        LET ts == storage[pos[1]].inner.sections[pos[2]].tasks
            i == pos[3]
            t == TaskAt(pos)
        IN  /\ i > 1
            /\ NestedTasks(t.body) = <<>>
            /\ Edited(WithTasks(pos,
                 [j \in 1..(Len(ts) - 1) |->
                    IF j < i - 1 THEN ts[j]
                    ELSE IF j = i - 1
                    THEN [ts[j] EXCEPT !.body = Append(@, SubTask(t.taskId, t.status, t.body))]
                    ELSE ts[j + 1]]))

\* the user adds a sub-task of their own under a task; the editor gives it an
\* id that no task of the page has
AddSubTask ==
    \E pos \in TaskPositions :
        LET ts == storage[pos[1]].inner.sections[pos[2]].tasks
            used == collectAllTaskIdsOnPage(storage)
            id == CHOOSE n \in 1..(Cardinality(used) + 1) : n \notin used
            sub == SubTask(id, "incomplete", <<Text(<<"s">>)>>)
        IN  /\ NestedTasks(TaskAt(pos).body) = <<>>
            /\ Edited(WithTasks(pos, [ts EXCEPT ![pos[3]].body = Append(@, sub)]))

Next == Sync \/ Revise \/ SetStatus \/ AppendText \/ IndentTask \/ AddSubTask

Spec == Init /\ [][Next]_vars

(***************************************************************************)
(* Vocabulary of the properties: the last syncById call seen from outside. *)
(***************************************************************************)
Synced == last.n >= 1

\* the items of the specification of the last sync, in specification order
LastItems ==
    Concat([i \in 1..Len(last.spec.sections) |-> last.spec.sections[i].items])

\* the rendered sections that stand for the sections of the specification
MainSections ==
    SubSeq(last.inner.sections, 1, Len(last.spec.sections))

\* the tasks rendered for the items, in render order
MainTasks == Concat([i \in 1..Len(MainSections) |-> MainSections[i].tasks])

\* the sections rendered after those of the specification
ExtraSections ==
    SubSeq(last.inner.sections, Len(last.spec.sections) + 1, Len(last.inner.sections))

\* the index entries of the last sync whose key is not in its specification
LastRemoved == SelectSeq(last.existingMap, LAMBDA e : e.key \notin NowIds(last.spec))

Indexed(id) == \E j \in 1..Len(last.existingMap) : last.existingMap[j].key = id

Prev(id) == last.existingMap[CHOOSE j \in 1..Len(last.existingMap) :
                                last.existingMap[j].key = id]

\* the two-valued status of the data model
Complete(status) == status = "complete"

\* one task per item was rendered
OnePerItem == Len(MainTasks) = Len(LastItems)

\* the body holds an anchor macro whose parameter child reads as id
HasDirectMarker(body, id) ==
    \E j \in 1..Len(BodyAnchors(body)) :
        BodyAnchors(body)[j].direct /\ Trim(BodyAnchors(body)[j].val) = id

\* the marker of id as the engine writes it, followed by a space, then body
MarkerInFront(body, id) == <<Anchor(escapeXml(id), TRUE), Text(<<SP>>)>> \o body

\* the panel the last sync fetched, 0 when there was none
FetchedPanel == FindPanel(last.storage, PanelTitleOf(last.spec))

(***************************************************************************)
(* C1. Idempotence: a sync that directly follows a sync of the same        *)
(* specification with the same options, with no edit in between, issues no *)
(* write and reports updated = false; a sync of a page without managed     *)
(* panel issues a write.                                                   *)
(***************************************************************************)
C1_Idempotence ==
    (Synced /\ ~opts.dryRun) =>
        /\ (FetchedPanel = 0 => last.wrote)
        /\ (last.rep => ~last.wrote /\ ~last.updated)

(***************************************************************************)
(* C2. Status preservation: an item found in the index is rendered         *)
(* complete exactly when its indexed status is complete; and a task that   *)
(* the engine rendered for an item of the specification and that a user    *)
(* ticked is rendered complete by the next sync.                           *)
(***************************************************************************)
\* t is a task as the engine renders it for id: every marker of its body is
\* the marker of id, and it has no sub-task
RenderedFor(t, id) ==
    /\ BodyAnchors(t.body) # <<>>
    /\ \A j \in 1..Len(BodyAnchors(t.body)) :
            BodyAnchors(t.body)[j] = Anchor(escapeXml(id), TRUE)
    /\ NestedTasks(t.body) = <<>>

C2_StatusPreserved ==
    Synced =>
        /\ OnePerItem
        /\ \A i \in 1..Len(LastItems) :
            LET id == LastItems[i].id
            IN  /\ Indexed(id) =>
                    (Complete(MainTasks[i].status) <=> Complete(Prev(id).status))
                /\ FetchedPanel # 0 =>
                    \A t \in {InnerTasks(last.storage[FetchedPanel].inner)[j] :
                                j \in 1..Len(InnerTasks(last.storage[FetchedPanel].inner))} :
                        (RenderedFor(t, id) /\ Complete(t.status))
                            => Complete(MainTasks[i].status)

(***************************************************************************)
(* C3. Body preservation.  Original statement: the body rendered for an    *)
(* item found in the index is exactly the indexed body.                    *)
(***************************************************************************)
C3_BodyExact ==
    Synced =>
        /\ OnePerItem
        /\ \A i \in 1..Len(LastItems) :
            Indexed(LastItems[i].id) => MainTasks[i].body = Prev(LastItems[i].id).bodyXml

(***************************************************************************)
(* C3, amended: the body rendered for an item found in the index is the    *)
(* indexed body when that body holds an anchor macro whose parameter child *)
(* reads as the item's id, and otherwise the indexed body with the item's  *)
(* marker and a space put in front; it never holds the specification's     *)
(* text unless the indexed body did.                                       *)
(***************************************************************************)
C3_BodyKept ==
    Synced =>
        /\ OnePerItem
        /\ \A i \in 1..Len(LastItems) :
            LET id == LastItems[i].id
            IN  Indexed(id) =>
                    MainTasks[i].body =
                        IF HasDirectMarker(Prev(id).bodyXml, id)
                        THEN Prev(id).bodyXml
                        ELSE MarkerInFront(Prev(id).bodyXml, id)

\* an indexed item whose display text changed keeps its body, user text included
C3_Witness ==
    /\ Synced
    /\ RevOf(last.spec) = 2
    /\ \E i \in 1..Len(LastItems) :
        /\ Indexed(LastItems[i].id)
        /\ MainTasks[i].body = Prev(LastItems[i].id).bodyXml
        /\ \E j \in 1..Len(MainTasks[i].body) :
              MainTasks[i].body[j] = Text(<<SP>> \o escapeXml(TextOf(1)) \o <<"</p>">>)

(***************************************************************************)
(* C4. Reorder stability: an item found in the index with a structural     *)
(* identifier is rendered with that identifier and that status, wherever   *)
(* the item stands in the specification.                                   *)
(***************************************************************************)
C4_ReorderStable ==
    Synced =>
        /\ OnePerItem
        /\ \A i \in 1..Len(LastItems) :
            LET id == LastItems[i].id
            IN  (Indexed(id) /\ Prev(id).taskId # 0) =>
                    /\ MainTasks[i].taskId = Prev(id).taskId
                    /\ Complete(MainTasks[i].status) <=> Complete(Prev(id).status)

\* two indexed items with structural identifiers are rendered in the order
\* opposite to the one they have in the index, one of them complete
C4_Witness ==
    /\ Synced
    /\ last.n >= 2
    /\ Len(LastItems) = 2
    /\ Len(last.existingMap) = 2
    /\ last.existingMap[1].key = LastItems[2].id
    /\ last.existingMap[2].key = LastItems[1].id
    /\ last.existingMap[1].taskId # 0
    /\ last.existingMap[2].taskId # 0
    /\ \E j \in 1..2 : Complete(last.existingMap[j].status)
    /\ MainTasks[1].taskId = last.existingMap[2].taskId

(***************************************************************************)
(* C5. Disjoint allocation: every identifier allocated by a sync differs   *)
(* from every task id of the fetched document and from every identifier    *)
(* allocated earlier in the same pass, whatever the clock readings.        *)
(***************************************************************************)
C5_DisjointAllocation ==
    Synced =>
        /\ \A i, j \in 1..Len(last.allocs) : last.allocs[i] = last.allocs[j] => i = j
        /\ \A i \in 1..Len(last.allocs) :
            \A j \in 1..Len(DocTasks(last.storage)) :
                DocTasks(last.storage)[j].taskId # last.allocs[i]

\* two allocations in one pass on a page that holds a task id, the second
\* smaller than the first: the clock went back and a reading was taken
C5_Witness ==
    /\ Synced
    /\ Len(last.allocs) >= 2
    /\ last.allocs[2] < last.allocs[1]
    /\ \E id \in last.prevAllTaskIds : id <= MaxClock

(***************************************************************************)
(* C6. Document-wide uniqueness: after every sync, in any sequence of      *)
(* syncs, revisions of the specification and edits of status or body, no   *)
(* two tasks of the document, nested ones and those outside the panel      *)
(* included, carry the same structural identifier.                         *)
(***************************************************************************)
UniqueTaskIds(doc) ==
    \A i, j \in 1..Len(DocTasks(doc)) :
        (DocTasks(doc)[i].taskId # 0 /\ DocTasks(doc)[i].taskId = DocTasks(doc)[j].taskId)
            => i = j

C6_UniqueIds ==
    lastOp = "sync" => UniqueTaskIds(storage)

(***************************************************************************)
(* C7. Removal with retention disabled: no section is rendered after the   *)
(* sections of the specification, and no rendered task, nested ones        *)
(* included, carries the structural identifier or the marker of an index   *)
(* entry whose item is absent from the specification.                      *)
(***************************************************************************)
\* the index entry stands for an item that the specification does not hold:
\* its key is neither an id of the specification nor the escaped form of one
Gone(e) ==
    \A id \in NowIds(last.spec) : e.key # id /\ e.key # escapeXml(id)

C7_Dropped ==
    (Synced /\ ~opts.includeRemovedSection) =>
        /\ Len(last.inner.sections) = Len(last.spec.sections)
        /\ \A i \in 1..Len(last.existingMap) :
            LET e == last.existingMap[i]
                ts == RegionTasks(last.inner)
            IN  Gone(e) =>
                  \A j \in 1..Len(ts) :
                    /\ e.taskId # 0 => ts[j].taskId # e.taskId
                    /\ \A a \in 1..Len(BodyAnchors(ts[j].body)) :
                          Trim(BodyAnchors(ts[j].body)[a].val) # e.key

\* an item rendered by an earlier sync has left the specification, another stays
C7_Witness ==
    /\ Synced
    /\ ~opts.includeRemovedSection
    /\ last.n >= 2
    /\ \E i \in 1..Len(last.existingMap) :
          Gone(last.existingMap[i]) /\ last.existingMap[i].taskId # 0
    /\ MainTasks # <<>>
    /\ last.wrote

(***************************************************************************)
(* C8. Removal with retention enabled.  Original statement: every index    *)
(* entry whose key is absent from the specification is rendered once, in a *)
(* single section after those of the specification, in index order, with   *)
(* its structural identifier, its status and exactly its indexed body.     *)
(***************************************************************************)
AppendixTasks == IF ExtraSections = <<>> THEN <<>> ELSE ExtraSections[1].tasks

\* the appendix is the one trailing section, one task per removed entry in
\* index order, each with the identifier and the status of its entry, and
\* found nowhere else in the region
AppendixFrame ==
    /\ Len(ExtraSections) = IF LastRemoved = <<>> THEN 0 ELSE 1
    /\ LastRemoved # <<>> => ExtraSections[1].heading = REMOVED_HEADING
    /\ Len(AppendixTasks) = Len(LastRemoved)
    /\ \A i \in 1..Len(LastRemoved) :
        /\ LastRemoved[i].taskId # 0 => AppendixTasks[i].taskId = LastRemoved[i].taskId
        /\ Complete(AppendixTasks[i].status) <=> Complete(LastRemoved[i].status)
        /\ \A j \in 1..Len(MainTasks) : MainTasks[j].taskId # AppendixTasks[i].taskId
        /\ \A j \in 1..Len(AppendixTasks) :
              AppendixTasks[j].taskId = AppendixTasks[i].taskId => i = j

C8_RetainedExact ==
    (Synced /\ opts.includeRemovedSection) =>
        /\ AppendixFrame
        /\ \A i \in 1..Len(LastRemoved) : AppendixTasks[i].body = LastRemoved[i].bodyXml

(***************************************************************************)
(* C8, amended: as above, but the body of a retained task is the indexed   *)
(* body when that body holds an anchor macro whose parameter child reads   *)
(* as the entry's key, and otherwise the indexed body with the marker of   *)
(* the key and a space put in front.                                       *)
(***************************************************************************)
C8_Retained ==
    (Synced /\ opts.includeRemovedSection) =>
        /\ AppendixFrame
        /\ \A i \in 1..Len(LastRemoved) :
            AppendixTasks[i].body =
                IF HasDirectMarker(LastRemoved[i].bodyXml, LastRemoved[i].key)
                THEN LastRemoved[i].bodyXml
                ELSE MarkerInFront(LastRemoved[i].bodyXml, LastRemoved[i].key)

\* two entries are retained behind a rendered item, one of them complete
C8_Witness ==
    /\ Synced
    /\ opts.includeRemovedSection
    /\ Len(LastRemoved) = 2
    /\ Len(AppendixTasks) = 2
    /\ MainTasks # <<>>
    /\ \E i \in 1..2 : Complete(AppendixTasks[i].status)
    /\ \E i \in 1..2 : AppendixTasks[i].body = LastRemoved[i].bodyXml

(***************************************************************************)
(* C9. Marker invariant: the body of every rendered task, fresh, carried   *)
(* over or retained, holds the marker of its own external id; a carried    *)
(* body is kept whole behind whatever is inserted, and when it holds no    *)
(* anchor macro whose parameter child reads as the id, the marker stands   *)
(* at its front.                                                           *)
(***************************************************************************)
HasMarker(body, id) ==
    \E j \in 1..Len(BodyAnchors(body)) :
        /\ BodyAnchors(body)[j].direct
        /\ \/ Trim(BodyAnchors(body)[j].val) = id
           \/ BodyAnchors(body)[j].val = escapeXml(id)

IsSuffix(s, t) == Len(s) <= Len(t) /\ SubSeq(t, Len(t) - Len(s) + 1, Len(t)) = s

Carried(body, prevBody, id) ==
    /\ IsSuffix(prevBody, body)
    /\ ~HasDirectMarker(prevBody, id) => Head(body) = Anchor(escapeXml(id), TRUE)

C9_MarkerPresent ==
    Synced =>
        /\ OnePerItem
        /\ \A i \in 1..Len(LastItems) :
            /\ HasMarker(MainTasks[i].body, LastItems[i].id)
            /\ Indexed(LastItems[i].id) =>
                  Carried(MainTasks[i].body, Prev(LastItems[i].id).bodyXml, LastItems[i].id)
        /\ opts.includeRemovedSection =>
            /\ Len(AppendixTasks) = Len(LastRemoved)
            /\ \A i \in 1..Len(LastRemoved) :
                /\ HasMarker(AppendixTasks[i].body, LastRemoved[i].key)
                /\ Carried(AppendixTasks[i].body, LastRemoved[i].bodyXml, LastRemoved[i].key)

\* a carried body without such an anchor macro got the marker at its front
C9_Witness ==
    /\ Synced
    /\ \E i \in 1..Len(LastItems) :
        /\ Indexed(LastItems[i].id)
        /\ ~HasDirectMarker(Prev(LastItems[i].id).bodyXml, LastItems[i].id)
        /\ Len(MainTasks[i].body) = Len(Prev(LastItems[i].id).bodyXml) + 2
        /\ Head(MainTasks[i].body) = Anchor(escapeXml(LastItems[i].id), TRUE)

(***************************************************************************)
(* C10. Fresh items: an item whose id is not in the index is rendered      *)
(* incomplete, with an identifier allocated in this pass that the fetched  *)
(* document did not hold, and with the body <p>marker, space, escaped      *)
(* display text</p>.                                                       *)
(***************************************************************************)
C10_FreshItems ==
    Synced =>
        /\ OnePerItem
        /\ \A i \in 1..Len(LastItems) :
            ~Indexed(LastItems[i].id) =>
                /\ MainTasks[i].status = "incomplete"
                /\ \E a \in 1..Len(last.allocs) : last.allocs[a] = MainTasks[i].taskId
                /\ MainTasks[i].taskId \notin last.prevAllTaskIds
                /\ MainTasks[i].body =
                      << Text(<<"<p>">>),
                         Anchor(escapeXml(LastItems[i].id), TRUE),
                         Text(<<SP>> \o escapeXml(LastItems[i].text) \o <<"</p>">>) >>

\* an item new to a region that already holds a carried item
C10_Witness ==
    /\ Synced
    /\ FetchedPanel # 0
    /\ \E i, j \in 1..Len(LastItems) :
        /\ ~Indexed(LastItems[i].id)
        /\ Indexed(LastItems[j].id)
        /\ MainTasks[i].taskId # MainTasks[j].taskId

(***************************************************************************)
(* The REST layer.  A handler runs against the store of pages and sends    *)
(* its requests one after the other; the run h carries the store, the      *)
(* requests sent with their answers, the dry-run log lines and whether an  *)
(* exception is in flight.  A fault script tells how the server answers:   *)
(* the request number failAt gets a failure that is no version conflict    *)
(* (a 5xx, a network error), the first `conflicts` document writes get a   *)
(* version conflict (another writer saved the page first), and every other *)
(* request gets what the store holds.                                      *)
(***************************************************************************)
\* most version conflicts the server answers in one run
MaxConflicts == 3
\* the default of putPageWithRetry's retries parameter
RETRIES == 2

\* page ids that are no position of the store: "dry-run-id" and ""
DryRunId == 0
EmptyId == 0 - 1

Script(conflicts, failAt) == [conflicts |-> conflicts, failAt |-> failAt]

Request(what, resp) == [what |-> what, resp |-> resp]

Page(title, storageXml, versionNum) ==
    [title |-> title, storage |-> storageXml, version |-> versionNum,
     labels |-> {}, prop |-> 0]

Run(store, script) ==
    [pages |-> store, reqs |-> <<>>, logs |-> <<>>, err |-> FALSE,
     conflicts |-> script.conflicts, failAt |-> script.failAt,
     pageId |-> 0, created |-> FALSE, compared |-> FALSE, differs |-> FALSE,
     updated |-> FALSE]

LastResp(h) == h.reqs[Len(h.reqs)].resp

\* F applied to the value of v, which is computed once
Eval(v, F(_)) == CHOOSE r \in {F(x) : x \in {v}} : TRUE

\* api: one request and its answer; servable says that the store can serve it.
\* err is set when the answer is not a success (api throws)
api(h, what, servable) ==
    LET k == Len(h.reqs) + 1
        resp == IF k = h.failAt THEN "fail"
                ELSE IF ~servable THEN "missing"
                ELSE IF what = "PUT page" /\ h.conflicts > 0 THEN "conflict"
                ELSE "ok"
    IN  [h EXCEPT !.reqs = Append(@, Request(what, resp)),
                  !.conflicts = IF resp = "conflict" THEN @ - 1 ELSE @,
                  !.err = resp # "ok"]

HasPage(h, pageId) == pageId \in 1..Len(h.pages)

getPage(h, pageId) == api(h, "GET page", HasPage(h, pageId))

\* variant that looks at the first page of the space only
FirstResultHead(store, title) ==
    IF store # <<>> /\ store[1].title = title THEN 1 ELSE 0

\* the first page of that title, 0 when there is none
FirstResult(store, title) ==
    LET hits == {i \in 1..Len(store) : store[i].title = title}
    IN  IF hits = {} THEN 0 ELSE CHOOSE i \in hits : \A j \in hits : i <= j

\* findPageByTitle: pageId is results[0], 0 for null
findPageByTitle(h, title) ==
    Eval(api(h, "GET pages", TRUE),
         LAMBDA f : IF f.err THEN f
                    ELSE [f EXCEPT !.pageId = FirstResult(f.pages, title)])

\* variant that sends the request on a dry run too
createPageAlways(h, title, storageXml, dryRun) ==
    Eval(api(h, "POST page", TRUE),
         LAMBDA c : IF c.err THEN c
                    ELSE [c EXCEPT !.pages = Append(@, Page(title, storageXml, 1)),
                                   !.pageId = Len(c.pages) + 1])

\* createPage
createPage(h, title, storageXml, dryRun) ==
    IF dryRun
    THEN [h EXCEPT !.logs = Append(@, "CREATE PAGE"), !.pageId = DryRunId]
    ELSE Eval(api(h, "POST page", TRUE),
              LAMBDA c : IF c.err THEN c
                         ELSE [c EXCEPT !.pages = Append(@, Page(title, storageXml, 1)),
                                        !.pageId = Len(c.pages) + 1])

\* addLabels
addLabels(h, pageId, labels) ==
    Eval(api(h, "GET labels", HasPage(h, pageId)),
         LAMBDA existing :
            IF existing.err THEN existing
            ELSE IF labels \ existing.pages[pageId].labels = {} THEN existing
            ELSE Eval(api(existing, "POST labels", TRUE),
                      LAMBDA a : IF a.err THEN a
                                 ELSE [a EXCEPT !.pages[pageId].labels = @ \cup labels]))

\* the edit of another writer: every task of the panels' lists is ticked
ConcurrentEdit(doc) ==
    [i \in 1..Len(doc) |->
        IF doc[i].k # "panel" THEN doc[i]
        ELSE [doc[i] EXCEPT !.inner.sections =
                [j \in 1..Len(@) |->
                    [@[j] EXCEPT !.tasks =
                        [n \in 1..Len(@) |-> [@[n] EXCEPT !.status = "complete"]]]]]]

\* the page after another writer has saved it: edited, the version one higher
OtherWriter(page) ==
    [page EXCEPT !.storage = ConcurrentEdit(@), !.version = @ + 1]

\* variant that sends the stored content again when it retries
RECURSIVE putPageKeepLatest(_, _, _, _, _, _)
putPageKeepLatest(h, pageId, newStorage, versionNum, dryRun, retries) ==
    IF dryRun
    THEN [h EXCEPT !.logs = Append(@, "UPDATE PAGE")]
    ELSE Eval(api(h, "PUT page", HasPage(h, pageId)),
              LAMBDA put :
                 IF ~put.err
                 THEN [put EXCEPT !.pages[pageId].storage = newStorage,
                                  !.pages[pageId].version = versionNum + 1]
                 ELSE IF LastResp(put) # "conflict" THEN put
                 ELSE IF retries > 0
                 THEN Eval(getPage([put EXCEPT !.pages[pageId] = OtherWriter(@),
                                               !.err = FALSE], pageId),
                           LAMBDA latest :
                              IF latest.err THEN latest
                              ELSE putPageKeepLatest(latest, pageId,
                                       latest.pages[pageId].storage,
                                       latest.pages[pageId].version, dryRun,
                                       retries - 1))
                 ELSE [put EXCEPT !.pages[pageId] = OtherWriter(@)])

\* variant that retries after every conflict, whatever retries it has left
RECURSIVE putPageRetryUnbounded(_, _, _, _, _, _)
putPageRetryUnbounded(h, pageId, newStorage, versionNum, dryRun, retries) ==
    IF dryRun
    THEN [h EXCEPT !.logs = Append(@, "UPDATE PAGE")]
    ELSE Eval(api(h, "PUT page", HasPage(h, pageId)),
              LAMBDA put :
                 IF ~put.err
                 THEN [put EXCEPT !.pages[pageId].storage = newStorage,
                                  !.pages[pageId].version = versionNum + 1]
                 ELSE IF LastResp(put) # "conflict" THEN put
                 ELSE Eval(getPage([put EXCEPT !.pages[pageId] = OtherWriter(@),
                                               !.err = FALSE], pageId),
                           LAMBDA latest :
                              IF latest.err THEN latest
                              ELSE putPageRetryUnbounded(latest, pageId, newStorage,
                                       latest.pages[pageId].version, dryRun,
                                       retries - 1)))

\* variant that retries after every failed attempt, conflict or not
RECURSIVE putPageRetryAnyError(_, _, _, _, _, _)
putPageRetryAnyError(h, pageId, newStorage, versionNum, dryRun, retries) ==
    IF dryRun
    THEN [h EXCEPT !.logs = Append(@, "UPDATE PAGE")]
    ELSE Eval(api(h, "PUT page", HasPage(h, pageId)),
              LAMBDA put :
                 IF ~put.err
                 THEN [put EXCEPT !.pages[pageId].storage = newStorage,
                                  !.pages[pageId].version = versionNum + 1]
                 ELSE IF retries > 0
                 THEN Eval(getPage([put EXCEPT !.err = FALSE], pageId),
                           LAMBDA latest :
                              IF latest.err THEN latest
                              ELSE putPageRetryAnyError(latest, pageId, newStorage,
                                       latest.pages[pageId].version, dryRun,
                                       retries - 1))
                 ELSE put)

\* putPageWithRetry.  A conflict answer means that another writer has saved
\* the page in between: the stored page is the one that writer has left.
RECURSIVE putPageWithRetry(_, _, _, _, _, _)
putPageWithRetry(h, pageId, newStorage, versionNum, dryRun, retries) ==
    IF dryRun
    THEN [h EXCEPT !.logs = Append(@, "UPDATE PAGE")]
    ELSE Eval(api(h, "PUT page", HasPage(h, pageId)),
              LAMBDA put :
                 IF ~put.err
                 THEN [put EXCEPT !.pages[pageId].storage = newStorage,
                                  !.pages[pageId].version = versionNum + 1]
                 ELSE IF LastResp(put) # "conflict" THEN put
                 ELSE IF retries > 0
                 THEN Eval(getPage([put EXCEPT !.pages[pageId] = OtherWriter(@),
                                               !.err = FALSE], pageId),
                           LAMBDA latest :
                              IF latest.err THEN latest
                              ELSE putPageWithRetry(latest, pageId, newStorage,
                                       latest.pages[pageId].version, dryRun,
                                       retries - 1))
                 ELSE [put EXCEPT !.pages[pageId] = OtherWriter(@)])

\* upsertProperty; prop is the version of the page's property, 0 when it has none
upsertProperty(h, pageId) ==
    Eval(api(h, "GET property", h.pages[pageId].prop > 0),
         LAMBDA got :
            IF ~got.err
            THEN Eval(api(got, "PUT property", TRUE),
                      LAMBDA u : IF u.err THEN u
                                 ELSE [u EXCEPT !.pages[pageId].prop = @ + 1])
            ELSE Eval(api([got EXCEPT !.err = FALSE], "POST property",
                          got.pages[pageId].prop = 0),
                      LAMBDA u : IF u.err THEN u
                                 ELSE [u EXCEPT !.pages[pageId].prop = 1]))

\* the clock of the REST layer: Date.now() reads 1 at every allocation (the
\* allocation under other readings is the matter of Spec)
HttpClock == <<>>

\* buildManagedPanelStorage: the body of a page created with its panel
buildManagedPanelStorage(s, existingMap, includeRemovedSection, prevAllTaskIds, clock) ==
    << Panel(escapeXml(PanelTitleOf(s)), TRUE,
             buildPanelInnerXml(s, existingMap, prevAllTaskIds,
                                includeRemovedSection, clock).inner) >>

\* the document syncById builds from the fetched one
Rebuilt(storageXml, s, includeRemovedSection) ==
    Eval(storageXml,
         LAMBDA doc :
            Eval(readExistingTasks(doc, PanelTitleOf(s)),
                 LAMBDA existingMap :
                    Eval(collectAllTaskIdsOnPage(doc),
                         LAMBDA prevAllTaskIds :
                            Eval(buildPanelInnerXml(s, existingMap, prevAllTaskIds,
                                     includeRemovedSection, HttpClock).inner,
                                 LAMBDA inner :
                                    setManagedPanel(doc, PanelTitleOf(s), inner)))))

\* variant without the comparison: the document is written in any case
writeBackAlways(page, pageId, newStorage, dryRun) ==
    Eval(putPageWithRetry([page EXCEPT !.compared = TRUE, !.differs = TRUE],
             pageId, newStorage, page.pages[pageId].version, dryRun, RETRIES),
         LAMBDA put :
            IF put.err THEN put
            ELSE IF dryRun THEN [put EXCEPT !.updated = TRUE]
            ELSE Eval(upsertProperty(put, pageId),
                      LAMBDA meta : IF meta.err THEN meta
                                    ELSE [meta EXCEPT !.updated = TRUE]))

\* the rest of syncById once the page is fetched and the new document built
writeBack(page, pageId, newStorage, dryRun) ==
    Eval(normalizeXml(Xml(page.pages[pageId].storage)) = normalizeXml(Xml(newStorage)),
         LAMBDA same :
            IF same THEN [page EXCEPT !.compared = TRUE, !.differs = FALSE,
                                      !.updated = FALSE]
            ELSE Eval(putPageWithRetry([page EXCEPT !.compared = TRUE, !.differs = TRUE],
                          pageId, newStorage, page.pages[pageId].version, dryRun,
                          RETRIES),
                      LAMBDA put :
                         IF put.err THEN put
                         ELSE IF dryRun THEN [put EXCEPT !.updated = TRUE]
                         ELSE Eval(upsertProperty(put, pageId),
                                   LAMBDA meta : IF meta.err THEN meta
                                                 ELSE [meta EXCEPT !.updated = TRUE])))

\* syncById as a run of requests against the store of pages
syncByIdRun(h, pageId, s, includeRemovedSection, dryRun) ==
    Eval(getPage(h, pageId),
         LAMBDA page :
            IF page.err THEN page
            ELSE Eval(Rebuilt(page.pages[pageId].storage, s, includeRemovedSection),
                      LAMBDA newStorage : writeBack(page, pageId, newStorage, dryRun)))

\* the page ensurePageAndSync creates when it has found none
createAndLabel(found, pageTitle, labels, s, includeRemovedSection, dryRun) ==
    Eval(buildManagedPanelStorage(s, <<>>, includeRemovedSection, {}, HttpClock),
         LAMBDA initialStorage :
            Eval(createPage(found, pageTitle, initialStorage, dryRun),
                 LAMBDA createdPage :
                    IF createdPage.err THEN createdPage
                    ELSE IF ~dryRun /\ labels # {}
                    THEN Eval(addLabels(createdPage, createdPage.pageId, labels),
                              LAMBDA labelled :
                                 IF labelled.err THEN labelled
                                 ELSE [labelled EXCEPT !.created = TRUE])
                    ELSE [createdPage EXCEPT !.created = TRUE]))

\* ensurePageAndSync
ensurePageAndSync(h, pageTitle, labels, s, includeRemovedSection, dryRun) ==
    Eval(findPageByTitle(h, pageTitle),
         LAMBDA found :
            IF found.err THEN found
            ELSE Eval(IF found.pageId # 0 THEN found
                      ELSE createAndLabel(found, pageTitle, labels, s,
                                          includeRemovedSection, dryRun),
                      LAMBDA page :
                         IF page.err THEN page
                         ELSE syncByIdRun(page, page.pageId, s, includeRemovedSection,
                                          dryRun)))

\* what a run leaves behind, the fault script aside
Outcome(h) ==
    [pages |-> h.pages, reqs |-> h.reqs, logs |-> h.logs, err |-> h.err,
     pageId |-> h.pageId, created |-> h.created, compared |-> h.compared,
     differs |-> h.differs, updated |-> h.updated,
     faulty |-> \E i \in 1..Len(h.reqs) : h.reqs[i].resp \in {"fail", "conflict"}]

\* the fault scripts of a run of n requests: a number of conflicts, and one
\* request that fails (0: none); none of either for a server without faults
ConflictCounts(healthy) == IF healthy THEN {0} ELSE 0..MaxConflicts
FailPoints(healthy, n) == IF healthy THEN {0} ELSE 0..n

\* the runs of ensurePageAndSync under every fault script
EnsureRuns(store, pageTitle, labels, s, includeRemovedSection, dryRun, healthy) ==
    UNION {
        { Outcome(ensurePageAndSync(Run(store, Script(c, k)), pageTitle, labels, s,
                                    includeRemovedSection, dryRun))
            : k \in FailPoints(healthy,
                       Len(ensurePageAndSync(Run(store, Script(c, 0)), pageTitle, labels,
                               s, includeRemovedSection, dryRun).reqs)) }
        : c \in ConflictCounts(healthy) }

\* the runs of syncById under every fault script
SyncRuns(store, pageId, s, includeRemovedSection, dryRun, healthy) ==
    UNION {
        { Outcome(syncByIdRun(Run(store, Script(c, k)), pageId, s,
                              includeRemovedSection, dryRun))
            : k \in FailPoints(healthy,
                       Len(syncByIdRun(Run(store, Script(c, 0)), pageId, s,
                               includeRemovedSection, dryRun).reqs)) }
        : c \in ConflictCounts(healthy) }

(***************************************************************************)
(* Callers of the REST layer: the pages of one space, the plans of a       *)
(* batch, and the three public operations.  Every plan of a behaviour      *)
(* carries the caller's specification and options.                         *)
(***************************************************************************)
\* longest list of plans handed to syncWorkgroups
MaxPlans == 2

WorkgroupPlan(wgId, pageTitle, labels) ==
    [wgId |-> wgId, pageTitle |-> pageTitle, labels |-> labels]

\* the plans a caller may pass: workgroup A for either of two page titles,
\* workgroup B for the second; only the first title comes with a label
Plans ==
    {WorkgroupPlan("A", "P1", {"hl7"}), WorkgroupPlan("A", "P2", {}),
     WorkgroupPlan("B", "P2", {})}

PlanLists == UNION {[1..n -> Plans] : n \in 1..MaxPlans}

\* the specification of the callers of the REST layer
HttpSpecs == {MkSpec(<<X>>, 0, 1)}

\* a page body that two syncs of the one-item specification have produced
DocSynced ==
    Rebuilt(Rebuilt(DocEmpty, MkSpec(<<X>>, 0, 1), FALSE), MkSpec(<<X>>, 0, 1), FALSE)

\* a page body in sync with an earlier specification, of the items x and y
DocStale ==
    Rebuilt(Rebuilt(DocEmpty, MkSpec(<<X, Y>>, 0, 1), FALSE), MkSpec(<<X, Y>>, 0, 1), FALSE)

\* the space at the start: no page, or a page P1 that is empty, in sync, or
\* in sync with an earlier specification
InitStores ==
    {<<>>, <<Page("P1", DocEmpty, 1)>>, <<Page("P1", DocSynced, 1)>>,
     <<Page("P1", DocStale, 1)>>}

InitHttp ==
    /\ pages \in InitStores
    /\ spec \in HttpSpecs
    /\ opts \in [includeRemovedSection : {FALSE}, dryRun : BOOLEAN]
    /\ call = NoCall
    /\ batch = NoBatch
    /\ storage = <<>>
    /\ version = 1
    /\ steps = 0
    /\ lastOp = "none"
    /\ last = NoSync

\* one handler run on the store of pages; a behaviour has as many of them as
\* a batch has plans
HttpStep(op) ==
    /\ steps < MaxPlans
    /\ steps' = steps + 1
    /\ lastOp' = op
    /\ UNCHANGED <<opts, spec, storage, version, last>>

\* the record of a run o of operation op
CallOf(op, pageTitle, labels, o, result) ==
    [op |-> op, pageTitle |-> pageTitle, labels |-> labels, pagesBefore |-> pages,
     reqs |-> o.reqs, logs |-> o.logs, err |-> o.err, compared |-> o.compared,
     differs |-> o.differs, result |-> result,
     faulty |-> call.faulty \/ o.faulty, pageId |-> o.pageId]

\* the server injects faults into one run of a behaviour: once a run has met
\* a fault the server has recovered, and the later runs meet none
Recovered == call.faulty

\* a caller calls ensurePageAndSync; an error goes to the caller
EnsureCall ==
    /\ ~batch.active
    /\ HttpStep("ensure")
    /\ \E target \in {<<p.pageTitle, p.labels>> : p \in Plans} :
         \E o \in EnsureRuns(pages, target[1], target[2], spec,
                             opts.includeRemovedSection, opts.dryRun, Recovered) :
            /\ pages' = o.pages
            /\ call' = CallOf("ensurePageAndSync", target[1], target[2], o,
                              EnsureResult(o.pageId, o.created, UpdatedResult(o.updated)))
    /\ UNCHANGED batch

\* a caller calls syncById with the id of a page, or with an id no page has
SyncCall ==
    /\ ~batch.active
    /\ HttpStep("syncById")
    /\ \E pageId \in 1..(Len(pages) + 1) :
         \E o \in SyncRuns(pages, pageId, spec, opts.includeRemovedSection,
                           opts.dryRun, Recovered) :
            /\ pages' = o.pages
            /\ call' = CallOf("syncById", "", {}, [o EXCEPT !.pageId = pageId],
                              EnsureResult(pageId, FALSE, JsBoolean(o.updated)))
    /\ UNCHANGED batch

\* a caller calls syncWorkgroups with a list of plans
StartBatch ==
    /\ ~batch.active
    /\ \E plans \in PlanLists :
        /\ steps + Len(plans) <= MaxPlans
        /\ batch' = [NoBatch EXCEPT !.active = TRUE, !.plans = plans]
    /\ UNCHANGED <<pages, call, opts, spec, storage, version, last, steps, lastOp>>

\* variant of the loop body without the catch's failure entry
PlanResultUncaught(o) == EnsureResult(o.pageId, o.created, UpdatedResult(o.updated))

\* the entry the loop body of syncWorkgroups stores for a plan: the result of
\* ensurePageAndSync, the failure entry when it has thrown
PlanResult(o) ==
    IF o.err
    THEN EnsureResult(EmptyId, FALSE, JsBoolean(FALSE))
    ELSE EnsureResult(o.pageId, o.created, UpdatedResult(o.updated))

\* one turn of the loop of syncWorkgroups: ensurePageAndSync in try/catch
BatchStep ==
    /\ batch.active
    /\ batch.i <= Len(batch.plans)
    /\ HttpStep("batch")
    /\ LET plan == batch.plans[batch.i]
       IN  \E o \in EnsureRuns(pages, plan.pageTitle, plan.labels, spec,
                               opts.includeRemovedSection, opts.dryRun, Recovered) :
             LET result == PlanResult(o)
             IN  /\ pages' = o.pages
                 /\ call' = CallOf("syncWorkgroups", plan.pageTitle, plan.labels, o, result)
                 /\ batch' = [batch EXCEPT
                        !.i = @ + 1,
                        !.out = MapSet(@, [key |-> plan.wgId, val |-> result]),
                        !.done = Append(@, [wgId |-> plan.wgId, err |-> o.err,
                                            result |-> result])]

\* syncWorkgroups returns its map
BatchReturn ==
    /\ batch.active
    /\ batch.i > Len(batch.plans)
    /\ batch' = [batch EXCEPT !.active = FALSE, !.returned = TRUE]
    /\ UNCHANGED <<pages, call, opts, spec, storage, version, last, steps, lastOp>>

NextHttp == EnsureCall \/ SyncCall \/ StartBatch \/ BatchStep \/ BatchReturn

SpecHttp == InitHttp /\ [][NextHttp]_vars

(***************************************************************************)
(* Claims about the REST layer, checked under SpecHttp.                    *)
(***************************************************************************)
FailureEntry == EnsureResult(EmptyId, FALSE, JsBoolean(FALSE))

\* every plan of the returned batch was processed, and a plan whose run ended
\* in an error has the failure entry as its outcome
EveryPlanProcessed ==
    /\ Len(batch.done) = Len(batch.plans)
    /\ \A i \in 1..Len(batch.plans) :
          /\ batch.done[i].wgId = batch.plans[i].wgId
          /\ batch.done[i].err <=> batch.done[i].result = FailureEntry

DistinctWorkgroups(plans) ==
    \A i, j \in 1..Len(plans) : plans[i].wgId = plans[j].wgId => i = j

\* the last plan of a workgroup
LastOf(plans, wgId) ==
    CHOOSE i \in 1..Len(plans) :
        /\ plans[i].wgId = wgId
        /\ \A j \in 1..Len(plans) : plans[j].wgId = wgId => j <= i

\* C11 as stated: syncWorkgroups processes every plan, records the error of
\* a plan as that plan's failure entry and goes on, and the map it returns
\* holds exactly one outcome for every plan of the input.
C11_OnePerPlan ==
    batch.returned =>
        /\ EveryPlanProcessed
        /\ Len(batch.out) = Len(batch.plans)
        /\ \A i \in 1..Len(batch.plans) :
              /\ MapHas(batch.out, batch.plans[i].wgId)
              /\ MapGet(batch.out, batch.plans[i].wgId).val = batch.done[i].result

\* C11 amended: syncWorkgroups processes every plan, records the error of a
\* plan as that plan's failure entry and goes on; the map it returns holds
\* exactly one outcome for every workgroup id of the input, the one of the
\* last plan with that id, hence one for every plan when the ids differ.
C11_OnePerWorkgroup ==
    batch.returned =>
        /\ EveryPlanProcessed
        /\ {batch.out[k].key : k \in 1..Len(batch.out)}
              = {batch.plans[i].wgId : i \in 1..Len(batch.plans)}
        /\ \A k, l \in 1..Len(batch.out) :
              batch.out[k].key = batch.out[l].key => k = l
        /\ \A k \in 1..Len(batch.out) :
              batch.out[k].val
                  = batch.done[LastOf(batch.plans, batch.out[k].key)].result
        /\ DistinctWorkgroups(batch.plans) => Len(batch.out) = Len(batch.plans)

\* a batch of two workgroups has returned; the first plan failed, the second
\* was processed without an error
C11_Witness ==
    /\ batch.returned
    /\ Len(batch.plans) = 2
    /\ DistinctWorkgroups(batch.plans)
    /\ batch.done[1].err
    /\ ~batch.done[2].err
    /\ Len(batch.out) = 2

\* the requests of the last run of that kind and with that answer
Sent(what, resp) ==
    {k \in 1..Len(call.reqs) : call.reqs[k].what = what /\ call.reqs[k].resp = resp}

Asked(what) == {k \in 1..Len(call.reqs) : call.reqs[k].what = what}

\* C12: for a target processed without error, the outcome of
\* ensurePageAndSync and of syncWorkgroups has a boolean updated field, false
\* when the comparator found no material change (no write issued) and true
\* when a write was issued, and a created field that is true exactly when
\* this call has created the page.
C12_Outcome ==
    (call.op \in {"ensurePageAndSync", "syncWorkgroups"} /\ ~call.err) =>
        /\ call.result.updated = JsBoolean(call.differs)
        /\ call.differs <=> (Asked("PUT page") # {} \/ "UPDATE PAGE" \in
                                {call.logs[k] : k \in 1..Len(call.logs)})
        /\ call.result.created <=> Sent("POST page", "ok") # {}

Answered(resp) == {k \in 1..Len(call.reqs) : call.reqs[k].resp = resp}

\* the fetches putPageWithRetry makes: the GET page requests after a write
\* attempt
Refetches ==
    {k \in Asked("GET page") : \E j \in Asked("PUT page") : j < k}

\* C13: putPageWithRetry attempts the write at most RETRIES times after the
\* initial attempt, re-fetching the page before each retry; when every
\* attempt is answered with a version conflict it makes all these attempts
\* and then surfaces the failure; it ends with one accepted write, which is
\* its last attempt, or with an error.
C13_BoundedRetry ==
    Asked("PUT page") # {} =>
        /\ Cardinality(Asked("PUT page")) <= RETRIES + 1
        /\ Cardinality(Refetches) <= RETRIES
        /\ \A k \in Refetches : k - 1 \in Sent("PUT page", "conflict")
        /\ Cardinality(Sent("PUT page", "ok")) <= 1
        /\ \A k \in Sent("PUT page", "ok") : \A j \in Asked("PUT page") : j <= k
        /\ Sent("PUT page", "ok") = {} => call.err
        /\ (Sent("PUT page", "conflict") = Asked("PUT page") /\ Answered("fail") = {}) =>
              /\ Cardinality(Asked("PUT page")) = RETRIES + 1
              /\ Cardinality(Refetches) = RETRIES
              /\ call.err
              /\ call.reqs[Len(call.reqs)] = Request("PUT page", "conflict")

\* every write attempt of the run was answered with a version conflict, the
\* retries are used up and the error has reached the caller
C13_Witness ==
    /\ Asked("PUT page") # {}
    /\ Sent("PUT page", "conflict") = Asked("PUT page")
    /\ Answered("fail") = {}
    /\ Cardinality(Asked("PUT page")) = RETRIES + 1
    /\ call.err

LogLines == {call.logs[k] : k \in 1..Len(call.logs)}

\* the requests that change the store
Writes == {"POST page", "PUT page", "POST labels", "PUT property", "POST property"}

\* C14: a dry-run of ensurePageAndSync runs the full logic for any target,
\* a page that exists or one that would be created, and ends with a normal
\* outcome, the would-be write logged and nothing written.
C14_DryRunCompletes ==
    (opts.dryRun /\ call.op = "ensurePageAndSync" /\ Answered("fail") = {}) =>
        /\ ~call.err
        /\ call.compared
        /\ call.differs <=> "UPDATE PAGE" \in LogLines
        /\ \A k \in 1..Len(call.reqs) : call.reqs[k].what \notin Writes
        /\ pages = call.pagesBefore

\* C15: when a sync ends in an error, no write of it (page creation,
\* document write, label addition, property upsert) has been persisted.
C15_NoWriteOnError ==
    call.err =>
        /\ \A k \in 1..Len(call.reqs) :
              call.reqs[k].what \in Writes => call.reqs[k].resp # "ok"
        /\ Len(pages) = Len(call.pagesBefore)
        /\ \A i \in 1..Len(pages) :
              /\ pages[i].storage \in
                    {call.pagesBefore[i].storage, ConcurrentEdit(call.pagesBefore[i].storage)}
              /\ pages[i].labels = call.pagesBefore[i].labels
              /\ pages[i].prop = call.pagesBefore[i].prop

\* C16: a failure of a write that is no version conflict reaches the caller
\* at once: the failed write is the last request of the run, there is no
\* re-fetch and no further write attempt.
C16_NoRetryOnFailure ==
    \A k \in 1..Len(call.reqs) :
        (call.reqs[k].what \in Writes /\ call.reqs[k].resp \in {"fail", "missing"}) =>
            /\ k = Len(call.reqs)
            /\ call.err

\* the document write has met a transport failure, on the first attempt or
\* on a retry after a conflict
C16_Witness ==
    /\ Sent("PUT page", "fail") # {}
    /\ Sent("PUT page", "conflict") # {}
    /\ call.err

PagesTitled(store, title) == {i \in 1..Len(store) : store[i].title = title}

\* C17: ensurePageAndSync creates a page only when it finds no page of the
\* requested title; when it finds one it creates no page, adds no labels and
\* reports created = false; so over a sequence of calls at most one page of
\* a title comes to exist.
C17_CreateOnlyIfMissing ==
    /\ call.op \in {"ensurePageAndSync", "syncWorkgroups"} =>
          /\ Asked("POST page") # {} => PagesTitled(call.pagesBefore, call.pageTitle) = {}
          /\ PagesTitled(call.pagesBefore, call.pageTitle) # {} =>
                /\ Asked("POST page") = {}
                /\ Asked("GET labels") = {}
                /\ Asked("POST labels") = {}
                /\ ~call.result.created
                /\ Len(pages) = Len(call.pagesBefore)
    /\ call.op = "syncById" => Asked("POST page") = {}
    /\ \A i, j \in 1..Len(pages) : pages[i].title = pages[j].title => i = j

\* the second of two calls for a title has found the page that the first
\* call created, and has created none
C17_Witness ==
    /\ ~opts.dryRun
    /\ call.op = "ensurePageAndSync"
    /\ call.pageTitle = "P2"
    /\ PagesTitled(call.pagesBefore, "P2") # {}
    /\ ~call.err
    /\ ~call.result.created
    /\ Cardinality(PagesTitled(pages, "P2")) = 1

\* the body syncById has fetched in the last run: the body of the page as it
\* was before the run, of the page as the run has created it otherwise
Fetched ==
    IF call.pageId \in 1..Len(call.pagesBefore)
    THEN call.pagesBefore[call.pageId].storage
    ELSE buildManagedPanelStorage(spec, <<>>, opts.includeRemovedSection, {}, HttpClock)

\* the comparison of line 196 on the fetched body
MaterialChange ==
    normalizeXml(Xml(Fetched))
        # normalizeXml(Xml(Rebuilt(Fetched, spec, opts.includeRemovedSection)))

PropertyRequests ==
    Asked("GET property") \cup Asked("PUT property") \cup Asked("POST property")

\* C18: syncById issues a document write (in a dry-run: logs it) if and only
\* if the whitespace-normalized new document differs from the
\* whitespace-normalized fetched one; when they are equal it issues no
\* document write and no property upsert and returns updated = false.
C18_WriteGate ==
    /\ call.compared =>
          /\ call.differs <=> MaterialChange
          /\ ~opts.dryRun => (Asked("PUT page") # {} <=> MaterialChange)
          /\ opts.dryRun => ("UPDATE PAGE" \in LogLines <=> MaterialChange)
          /\ ~MaterialChange =>
                /\ Asked("PUT page") = {}
                /\ PropertyRequests = {}
                /\ "UPDATE PAGE" \notin LogLines
                /\ ~call.err
                /\ ~call.result.updated.val
                /\ pages = call.pagesBefore
    /\ ~call.compared => (Asked("PUT page") = {} /\ PropertyRequests = {})

\* a sync has fetched a page that is in sync with the specification and has
\* left it alone
C18_Witness ==
    /\ call.op = "syncById"
    /\ call.compared
    /\ ~MaterialChange
    /\ ~opts.dryRun
    /\ Asked("PUT page") = {}
    /\ ~call.err

(***************************************************************************)
(* SpecPanels: the engine on pages that hold several panels, two of them   *)
(* with the managed panel's title, and tasks outside the panels.           *)
(***************************************************************************)
NOTES == <<"Notes">>

OneTask(taskId, status, id) ==
    Inner(<<>>, <<Section(<<>>, <<Task(taskId, status, <<Anchor(id, TRUE), Text(<<"t">>)>>)>>)>>)

\* a task list, a panel of another title, the managed panel with white space
\* after its title, a second panel of the managed panel's title and a task
\* list; each of them holds a task with the marker of item x
DocTwoPanels ==
    << TaskList(<<Task(5, "complete", <<Anchor(X, TRUE), Text(<<"o">>)>>)>>),
       Panel(NOTES, FALSE, OneTask(3, "complete", X)),
       Panel(DEFAULT_PANEL_TITLE \o <<SP>>, FALSE, OneTask(1, "complete", X)),
       WsNode,
       Panel(DEFAULT_PANEL_TITLE, FALSE, OneTask(2, "incomplete", X)),
       TaskList(<<Task(4, "incomplete", <<Text(<<"o">>)>>)>>) >>

\* a panel of another title and a task list, and no managed panel
DocOtherPanel ==
    << Panel(NOTES, FALSE, OneTask(3, "complete", X)),
       TaskList(<<Task(4, "complete", <<Anchor(X, TRUE), Text(<<"o">>)>>)>>) >>

\* a managed panel with a task without marker, the task of item x, and a task
\* whose marker is white space
DocOrphan ==
    << Panel(DEFAULT_PANEL_TITLE, FALSE,
             Inner(<<>>, << Section(<<>>,
                 << Task(1, "complete", <<Text(<<"u">>)>>),
                    Task(2, "complete", <<Anchor(X, TRUE), Text(<<"t">>)>>),
                    Task(3, "incomplete", <<Anchor(<<SP>>, TRUE), Text(<<"w">>)>>) >>) >>)) >>

\* a managed panel with one task whose body holds the markers of y and of x
DocTwoMarkers ==
    << Panel(DEFAULT_PANEL_TITLE, FALSE,
             Inner(<<>>, << Section(<<>>,
                 << Task(1, "complete",
                         <<Anchor(Y, TRUE), Text(<<"t">>), Anchor(X, TRUE)>>) >>) >>)) >>

PanelDocs == {DocTwoPanels, DocOtherPanel, DocOrphan, DocTwoMarkers}

\* a panel title with a character that escapeXml rewrites
QA == <<"Q", "&", "A">>

PanelSpecs ==
    {MkSpec(<<X>>, 0, 1), MkSpec(<<Y, X>>, 0, 1),
     [MkSpec(<<X>>, 0, 1) EXCEPT !.panelTitle = QA]}

InitPanels ==
    /\ storage \in PanelDocs
    /\ version = 1
    /\ spec \in PanelSpecs
    /\ opts \in [includeRemovedSection : BOOLEAN, dryRun : BOOLEAN]
    /\ steps = 0
    /\ lastOp = "none"
    /\ last = NoSync
    /\ pages = <<>>
    /\ call = NoCall
    /\ batch = NoBatch

SpecPanels == InitPanels /\ [][Next]_vars

\* the panels of the document whose title reads as the target title
Matching(doc, panelTitle) ==
    {i \in 1..Len(doc) : doc[i].k = "panel" /\ Trim(doc[i].title) = panelTitle}

FirstMatching(doc, panelTitle) ==
    CHOOSE i \in Matching(doc, panelTitle) :
        \A j \in Matching(doc, panelTitle) : i <= j

LastMatches == Matching(last.storage, PanelTitleOf(last.spec))

LastTarget == FirstMatching(last.storage, PanelTitleOf(last.spec))

\* C19: the parser reads and the replacer writes the same region, the first
\* panel in document order whose title equals the target title; when no
\* panel matches, the index is empty, every item is rendered as new and the
\* panel is appended.
C19_SameRegion ==
    Synced =>
        IF LastMatches # {}
        THEN /\ last.existingMap
                    = IndexTasks(RegionTasks(last.storage[LastTarget].inner), <<>>)
             /\ Len(last.newStorage) = Len(last.storage)
             /\ last.newStorage[LastTarget].k = "panel"
             /\ last.newStorage[LastTarget].inner = last.inner
        ELSE /\ last.existingMap = <<>>
             /\ OnePerItem
             /\ \A i \in 1..Len(LastItems) :
                   /\ MainTasks[i].taskId \notin last.prevAllTaskIds
                   /\ MainTasks[i].status = "incomplete"
                   /\ MainTasks[i].body
                        = buildNewTaskBodyXml(LastItems[i].id, LastItems[i].text)
             /\ Len(last.newStorage) > Len(last.storage)
             /\ \E i \in (Len(last.storage) + 1)..Len(last.newStorage) :
                   /\ last.newStorage[i].k = "panel"
                   /\ last.newStorage[i].inner = last.inner

\* a sync of a page with two panels of the target title has read the first
\* of them: item x has the status of the first panel's task
C19_Witness ==
    /\ Synced
    /\ Cardinality(LastMatches) = 2
    /\ Indexed(X)
    /\ Prev(X).taskId = 1
    /\ last.newStorage[LastTarget].inner # last.storage[LastTarget].inner

\* C20: when the region exists the replacer changes nothing but the
\* region's inner content: the nodes before and after it, the panels of
\* another or of the same title and the tasks outside are unchanged.
C20_Frame ==
    (Synced /\ LastMatches # {}) =>
        /\ Len(last.newStorage) = Len(last.storage)
        /\ \A i \in 1..Len(last.storage) :
              i # LastTarget => last.newStorage[i] = last.storage[i]
        /\ last.newStorage[LastTarget].k = last.storage[LastTarget].k
        /\ last.newStorage[LastTarget].title = last.storage[LastTarget].title
        /\ last.newStorage[LastTarget].tasks = last.storage[LastTarget].tasks

\* a sync has changed the content of the first of two panels of the target
\* title on a page with another panel and tasks outside
C20_Witness ==
    /\ Synced
    /\ Cardinality(LastMatches) = 2
    /\ \E i \in 1..Len(last.storage) : last.storage[i].k = "tasks"
    /\ \E i \in 1..Len(last.storage) :
          last.storage[i].k = "panel" /\ i \notin LastMatches
    /\ last.newStorage # last.storage
    /\ last.wrote

\* the nodes the last sync has put behind the fetched document
Appended ==
    {i \in (Len(last.storage) + 1)..Len(last.newStorage) : last.newStorage[i].k = "panel"}

\* C21: when no region of the target title exists, the new document is the
\* old document unchanged, followed by one new panel of the target title
\* with the rendered content, and the parser of the next sync selects that
\* appended panel.
C21_Append ==
    (Synced /\ LastMatches = {}) =>
        /\ Len(last.newStorage) > Len(last.storage)
        /\ SubSeq(last.newStorage, 1, Len(last.storage)) = last.storage
        /\ Cardinality(Appended) = 1
        /\ \A i \in (Len(last.storage) + 1)..Len(last.newStorage) :
              \/ last.newStorage[i].k = "ws"
              \/ /\ i \in Appended
                 /\ last.newStorage[i].inner = last.inner
        /\ FindPanel(last.newStorage, PanelTitleOf(last.spec)) \in Appended

\* the region the last sync has read: its top-level tasks, and all its tasks
FetchedTop ==
    IF LastMatches = {} THEN <<>> ELSE InnerTasks(last.storage[LastTarget].inner)

FetchedTasks ==
    IF LastMatches = {} THEN <<>> ELSE RegionTasks(last.storage[LastTarget].inner)

\* the body holds no marker with a non-empty value
Orphan(t) == AnchorIdOf(t.body) = <<>>

\* no entry of the index stands for the task
NotIndexed(t) ==
    \A j \in 1..Len(last.existingMap) : last.existingMap[j].bodyXml # t.body

\* the structural identifiers of the rendered region
RenderedIds ==
    {RegionTasks(last.inner)[j].taskId : j \in 1..Len(RegionTasks(last.inner))}

Reserved(t) ==
    t.taskId # 0 =>
        /\ t.taskId \in last.prevAllTaskIds
        /\ \A j \in 1..Len(last.allocs) : last.allocs[j] # t.taskId

\* C22 as stated: a task of the managed region whose body holds no marker
\* with a non-empty value is not in the index and is absent from the region
\* after the sync, with retention enabled or disabled; its structural
\* identifier counts as reserved for allocation during that sync.
C22_OrphansAbsent ==
    Synced =>
        \A i \in 1..Len(FetchedTasks) :
            Orphan(FetchedTasks[i]) =>
                /\ NotIndexed(FetchedTasks[i])
                /\ FetchedTasks[i].taskId \notin RenderedIds
                /\ Reserved(FetchedTasks[i])

\* C22 amended: a task of the managed region whose body holds no marker
\* with a non-empty value is not in the index, and its structural
\* identifier is reserved during the sync; when it is a task of the
\* region's lists it is absent from the region after the sync, with
\* retention enabled or disabled; when it is nested in the body of another
\* task it shares the fate of that body.
C22_OrphansDropped ==
    Synced =>
        /\ \A i \in 1..Len(FetchedTasks) :
              Orphan(FetchedTasks[i]) =>
                  /\ NotIndexed(FetchedTasks[i])
                  /\ Reserved(FetchedTasks[i])
        /\ \A i \in 1..Len(FetchedTop) :
              Orphan(FetchedTop[i]) =>
                  /\ FetchedTop[i].taskId \notin RenderedIds
                  /\ \A j \in 1..Len(RegionTasks(last.inner)) :
                        RegionTasks(last.inner)[j].body # FetchedTop[i].body

\* a sync with a new item has read a region with a task without marker: the
\* task is gone and the new item has not taken its identifier
C22_Witness ==
    /\ Synced
    /\ \E i \in 1..Len(FetchedTop) :
          /\ Orphan(FetchedTop[i])
          /\ FetchedTop[i].taskId = 1
    /\ last.allocs # <<>>
    /\ last.wrote
    /\ 1 \notin RenderedIds

\* C23: whenever the parser leaves a task of the managed region out of the
\* index because its body has no discoverable marker, a log event of the
\* parser is emitted through the logger for that sync.
C23_OrphansLogged ==
    (Synced /\ \E i \in 1..Len(FetchedTasks) : Orphan(FetchedTasks[i])) =>
        \E k \in 1..Len(last.logs) : last.logs[k].by = "readExistingTasks"

\* the non-empty marker values of a body in body order
MarkerValues(body) ==
    LET vs == SelectSeq(BodyAnchors(body), LAMBDA a : Trim(a.val) # <<>>)
    IN  [j \in 1..Len(vs) |-> Trim(vs[j].val)]

LastMarker(body) == MarkerValues(body)[Len(MarkerValues(body))]

\* the index holds the task under that key
IndexedAs(t, key) == Indexed(key) /\ Prev(key).bodyXml = t.body

\* the body rendered for the item of that id
RenderedBody(id) ==
    MainTasks[CHOOSE i \in 1..Len(LastItems) : LastItems[i].id = id].body

\* C24: a task whose body holds more than one marker is indexed under
\* exactly one external identifier, the value of the last non-empty marker
\* in body order; it is not indexed under the other marker values, and its
\* body is carried over unchanged under that identifier.
C24_LastMarkerWins ==
    Synced =>
        \A i \in 1..Len(FetchedTasks) :
            LET t == FetchedTasks[i]
            IN  Len(MarkerValues(t.body)) > 1 =>
                    /\ IndexedAs(t, LastMarker(t.body))
                    /\ \A j \in 1..Len(MarkerValues(t.body)) :
                          MarkerValues(t.body)[j] # LastMarker(t.body) =>
                              ~IndexedAs(t, MarkerValues(t.body)[j])
                    /\ LastMarker(t.body) \in NowIds(last.spec) =>
                          RenderedBody(LastMarker(t.body)) = t.body

\* C25: the rendered region lists the display title first, then for each
\* section in specification order its heading (if any) and one task list
\* whose tasks are that section's items in specification order, then the
\* appendix (only when retention is enabled and an indexed id is absent from
\* the specification); the order of the tasks in the previous document has
\* no effect on the order of the main sections.
C25_RenderOrder ==
    Synced =>
        /\ last.inner.title = escapeXml(last.spec.title)
        /\ Len(last.inner.sections) >= Len(last.spec.sections)
        /\ \A i \in 1..Len(last.spec.sections) :
              /\ last.inner.sections[i].heading = escapeXml(last.spec.sections[i].heading)
              /\ Len(last.inner.sections[i].tasks) = Len(last.spec.sections[i].items)
              /\ \A j \in 1..Len(last.spec.sections[i].items) :
                    HasMarker(last.inner.sections[i].tasks[j].body,
                              last.spec.sections[i].items[j].id)
        /\ Len(ExtraSections) <= 1
        /\ ExtraSections # <<>> <=> (opts.includeRemovedSection /\ LastRemoved # <<>>)
        /\ ExtraSections # <<>> => ExtraSections[1].heading = REMOVED_HEADING

\* two items are rendered in specification order, the order opposite to the
\* one their tasks had in the fetched region
C25_Witness ==
    /\ Synced
    /\ Len(LastItems) = 2
    /\ Len(FetchedTop) = 2
    /\ HasMarker(FetchedTop[1].body, LastItems[2].id)
    /\ HasMarker(FetchedTop[2].body, LastItems[1].id)
    /\ HasMarker(MainTasks[1].body, LastItems[1].id)
    /\ HasMarker(MainTasks[2].body, LastItems[2].id)
    /\ LastItems[1].id # LastItems[2].id

\* what syncById has computed from the body it fetched
Computed == Rebuilt(Fetched, spec, opts.includeRemovedSection)

\* what it would compute from the body the other writer has left
Recomputed == Rebuilt(ConcurrentEdit(Fetched), spec, opts.includeRemovedSection)

\* C26: after a version conflict the writer fetches the page again for its
\* version number only and sends the content computed from the body fetched
\* first; when another writer has saved an edit in between, the accepted
\* retry replaces the document with content that does not hold that edit.
C26_RetryOverwrites ==
    (Sent("PUT page", "conflict") # {} /\ Sent("PUT page", "ok") # {}) =>
        /\ \A k \in Sent("PUT page", "conflict") :
              /\ call.reqs[k + 1].what = "GET page"
              /\ call.reqs[k + 2].what = "PUT page"
        /\ pages[call.pageId].storage = Computed
        /\ pages[call.pageId].version
              = Cardinality(Sent("PUT page", "conflict"))
                    + Cardinality(Sent("POST page", "ok"))
                    + (IF call.pageId \in 1..Len(call.pagesBefore)
                       THEN call.pagesBefore[call.pageId].version ELSE 0)
                    + 1
        /\ Recomputed # Computed => pages[call.pageId].storage # Recomputed

\* another writer has ticked the task of an item between the fetch and the
\* retried write, and the stored page holds the task unticked
C26_Witness ==
    /\ Sent("PUT page", "conflict") # {}
    /\ Sent("PUT page", "ok") # {}
    /\ ~call.err
    /\ Recomputed # Computed
    /\ \E i \in 1..Len(DocTasks(Recomputed)) :
          /\ DocTasks(Recomputed)[i].status = "complete"
          /\ DocTasks(pages[call.pageId].storage)[i].status = "incomplete"

\* the index the next sync builds from the document this sync has stored
NextIndex == readExistingTasks(last.newStorage, PanelTitleOf(last.spec))

\* the keys under which the next sync indexes the body
KeysOf(body) ==
    {NextIndex[j].key : j \in {n \in 1..Len(NextIndex) : NextIndex[n].bodyXml = body}}

\* C27: identity round trip: the body freshly rendered for an item of
\* external id X, once stored and parsed by the next sync, is indexed under
\* exactly X, also when X holds characters that are special in XML.
C27_IdentityRoundTrip ==
    (Synced /\ ~opts.dryRun) =>
        /\ OnePerItem
        /\ \A i \in 1..Len(LastItems) :
              ~Indexed(LastItems[i].id) =>
                  KeysOf(MainTasks[i].body) = {LastItems[i].id}

(***************************************************************************)
(* Pages that hold an appendix: an item was synced with retention enabled  *)
(* and then dropped from the specification.                                *)
(***************************************************************************)
\* the page after a sync of the item id and a sync of the empty list
DocRetained(id) ==
    Rebuilt(Rebuilt(DocEmpty, MkSpec(<<id>>, 0, 1), TRUE), MkSpec(<<>>, 0, 1), TRUE)

\* the same page, the retained task ticked or not
RetainedDocs ==
    {DocRetained(id) : id \in IdPool} \cup {ConcurrentEdit(DocRetained(id)) : id \in IdPool}

InitRetained ==
    /\ storage \in RetainedDocs
    /\ version = 1
    /\ spec \in {MkSpec(<<>>, 0, 1), MkSpec(<<Y>>, 0, 1), MkSpec(<<Y, X>>, 0, 1)}
    /\ opts \in [includeRemovedSection : {TRUE}, dryRun : BOOLEAN]
    /\ steps = 0
    /\ lastOp = "none"
    /\ last = NoSync
    /\ pages = <<>>
    /\ call = NoCall
    /\ batch = NoBatch

SpecRetained == InitRetained /\ [][Next]_vars

\* the tasks of the sections of that heading
TasksUnder(inner, heading) ==
    Concat([i \in 1..Len(inner.sections) |->
                IF inner.sections[i].heading = heading
                THEN inner.sections[i].tasks ELSE <<>>])

\* the tasks of the appendix the last sync fetched
FetchedAppendix ==
    IF FetchedPanel = 0 THEN <<>>
    ELSE TasksUnder(last.storage[FetchedPanel].inner, REMOVED_HEADING)

\* the tasks of the appendix the last sync rendered
RenderedAppendix == Concat([i \in 1..Len(ExtraSections) |-> ExtraSections[i].tasks])

\* C28: with retention enabled a removed item stays in the appendix with the
\* same task id, status and body over the later syncs, and when its id is
\* added back to the specification it is rendered in its section with the
\* same task id, status and body and no longer in the appendix.
C28_Recoverable ==
    (Synced /\ opts.includeRemovedSection) =>
        \A k \in 1..Len(FetchedAppendix) : \A id \in IdPool :
            RenderedFor(FetchedAppendix[k], id) =>
                IF id \in NowIds(last.spec)
                THEN /\ OnePerItem
                     /\ \E i \in 1..Len(LastItems) :
                            LastItems[i].id = id /\ MainTasks[i] = FetchedAppendix[k]
                     /\ \A j \in 1..Len(RenderedAppendix) :
                            RenderedAppendix[j].taskId # FetchedAppendix[k].taskId
                ELSE Cardinality({j \in 1..Len(RenderedAppendix) :
                                    RenderedAppendix[j] = FetchedAppendix[k]}) = 1

\* C29: with dryRun set, ensurePageAndSync, syncById and syncWorkgroups send
\* no request that changes the store (page creation, label addition,
\* document write, property upsert) in any run, and the pages of the store
\* are after the run what they were before it.
C29_DryRunNoWrites ==
    (opts.dryRun /\ call.op \in {"ensurePageAndSync", "syncById", "syncWorkgroups"}) =>
        /\ \A k \in 1..Len(call.reqs) : call.reqs[k].what \notin Writes
        /\ pages = call.pagesBefore

\* a dry run of syncById on a page whose document differs from the one
\* built: the write is logged, not sent
C29_Witness ==
    /\ opts.dryRun
    /\ call.op = "syncById"
    /\ MaterialChange
    /\ "UPDATE PAGE" \in LogLines
    /\ ~call.err

====
